---- MODULE Spec2Model ----
(***************************************************************************)
(* A model of the processing core of ai-briefing: the context packer and   *)
(* its token estimate (briefing/stages/packer.py), the two deduplication   *)
(* stages with their text canonicalisation and band buckets                *)
(* (briefing/stages/dedup.py), the clustering                              *)
(* (briefing/stages/clustering.py), the reranker                           *)
(* (briefing/stages/rerank.py), and the part of the run that packs,        *)
(* summarizes, writes and publishes (briefing/orchestrator.py).            *)
(*                                                                         *)
(* Texts are sequences of characters; a character is a string naming one   *)
(* code point ("a", ".", " ", ...).  Every stage is a pure function of its *)
(* inputs; the loops of pack and pack_cluster are unrolled into one action *)
(* per iteration so that what happens to a single sentence can be stated.  *)
(***************************************************************************)
EXTENDS Integers, Sequences, FiniteSets, TLC

VARIABLES
    \* ---- pack (packer.py:60-90) ----
    clusters,          \* argument: the list of clusters
    token_budget,      \* argument
    per_cluster_min,   \* argument
    per_cluster_max,   \* argument
    remaining,         \* local of pack
    topics,            \* local of pack: the PackedTopics so far
    ci,                \* position of "for c in clusters" (1-based)
    pc,                \* control point
    \* ---- pack_cluster (packer.py:40-57), the frame of the running call ----
    min_tokens,        \* argument
    max_tokens,        \* argument
    used,              \* local: set of accepted sentence texts
    total,             \* local: running token total
    out,               \* local: excerpts accepted so far
    ii,                \* position of "for it in items" (1-based)
    sents,             \* local: the sentences of the item at hand
    si,                \* position of "for s in sents" (1-based)
    \* ---- dedup (dedup.py) ----
    items,             \* the items handed to the dedup stage that runs next
    embs,              \* the embedding rows paired with items
    orig,              \* the items the run started with
    threshold,         \* argument of dedup_semantic, a rational <<num, den>>
    merge_sources,     \* argument of dedup_semantic
    fp_trace,          \* families formed by the last dedup_fingerprint call
    sem_trace,         \* keep_mask / rep_for of the last dedup_semantic call
    \* ---- _try_token_len (packer.py:12-19) called on its own ----
    tok_text,          \* argument
    tok_len,           \* the value returned
    \* ---- rerank (rerank.py) ----
    strategy,          \* argument of rerank_candidates
    model_name,        \* argument: "" is None or the empty string
    candidate_texts,   \* argument
    cand_embs,         \* argument: <<>> is None, <<rows>> an array
    query_vec,         \* argument: <<>> is None, <<v>> a vector
    mmr_lambda,        \* argument, a rational <<num, den>>
    topk,              \* argument of _mmr_select: <<>> is None, <<k>> a number
    ce_scores,         \* what the cross-encoder predicts for the candidates
    ce_order,          \* the order _rerank_ce returned, <<>> if it was not called
    order,             \* the value returned
    \* ---- cluster (clustering.py:43-72) ----
    cluster_embs,      \* argument embs: the embedding rows
    algo,              \* argument
    min_cluster_size,  \* argument
    cluster_k,         \* argument k
    attach_noise,      \* argument
    raw_labels,        \* what the clustering library predicted
    labels,            \* the value returned
    \* ---- _canonicalize (dedup.py:19-24) called on its own ----
    canon_in,          \* argument: <<>> is None, <<t>> the text t
    canon_out,         \* the value returned
    canon_again,       \* the value returned for canon_out as the argument
    \* ---- _band_buckets (dedup.py:40-47) called on its own ----
    lsh_simhashes,     \* argument simhashes: the fingerprints
    lsh_bits,          \* argument bits
    lsh_bands,         \* argument bands
    lsh_buckets,       \* the value returned
    \* ---- _execute_pipeline (orchestrator.py:137-225) ----
    bundles,           \* what run_processing_pipeline returned
    packer_enabled,    \* cfg["processing"]["packer"]["enabled"]
    use_multi_stage,   \* cfg["processing"]["multi_stage"]
    pack_raises,       \* <<>>, or <<step, exception>>: the step of the packing
                       \* block that raises in this run, and what it raises
    summary_result,    \* what the summarization call does in this run
    output_raises,     \* the steps after summarization that raise in this run
    packed_json,       \* the file packed.json of the output directory
    out_dir_made,      \* the output directory exists
    run_log,           \* the messages logged since the packing block began
    generated_files,   \* write_output has written the briefing
    published          \* the channels the briefing went out on

packVars == <<clusters, token_budget, per_cluster_min, per_cluster_max,
              remaining, topics, ci, pc>>
frameVars == <<min_tokens, max_tokens, used, total, out, ii, sents, si>>
dedupVars == <<items, embs, orig, threshold, merge_sources, fp_trace, sem_trace>>
tokVars == <<tok_text, tok_len>>
rerankVars == <<strategy, model_name, candidate_texts, cand_embs, query_vec,
                mmr_lambda, topk, ce_scores, ce_order, order>>
clusterVars == <<cluster_embs, algo, min_cluster_size, cluster_k, attach_noise,
                 raw_labels, labels>>
canonVars == <<canon_in, canon_out, canon_again>>
bucketVars == <<lsh_simhashes, lsh_bits, lsh_bands, lsh_buckets>>
runVars == <<bundles, packer_enabled, use_multi_stage, pack_raises, summary_result,
             output_raises, packed_json, out_dir_made, run_log, generated_files,
             published>>
stageVars == <<clusterVars, canonVars, bucketVars, runVars>>
fnVars == <<tokVars, rerankVars, stageVars>>
vars == <<packVars, frameVars, dedupVars, fnVars>>

----------------------------------------------------------------------------
(* Generic helpers *)

Max(a, b) == IF a >= b THEN a ELSE b
Min(a, b) == IF a <= b THEN a ELSE b

Rep(c, n) == [k \in 1..n |-> c]

RECURSIVE SeqsUpTo(_, _)
\* all sequences over S of length 0..n
SeqsUpTo(S, n) ==
    IF n = 0 THEN {<<>>}
    ELSE LET shorter == SeqsUpTo(S, n - 1)
         IN  shorter \cup {Append(q, x) : q \in {r \in shorter : Len(r) = n - 1}, x \in S}

RECURSIVE Concat(_)
Concat(qs) == IF qs = <<>> THEN <<>> ELSE Head(qs) \o Concat(Tail(qs))

Front(q) == SubSeq(q, 1, Len(q) - 1)
Last(q) == q[Len(q)]

----------------------------------------------------------------------------
(* Characters *)

WhiteChars == {" ", "\t", "NO-BREAK SPACE"}
\* the sentence terminators of the split pattern, [。！？.!?]
Terminators == {".", "!", "?", "IDEOGRAPHIC FULL STOP", "FULLWIDTH !", "FULLWIDTH ?"}

RECURSIVE LStrip(_)
LStrip(t) == IF t # <<>> /\ Head(t) \in WhiteChars THEN LStrip(Tail(t)) ELSE t

RECURSIVE RStrip(_)
RStrip(t) == IF t # <<>> /\ Last(t) \in WhiteChars THEN RStrip(Front(t)) ELSE t

\* str.strip()
Strip(t) == RStrip(LStrip(t))

----------------------------------------------------------------------------
(* packer.py *)

\* the heuristic branch: max(1, int(len(text) / 4))
CharsPerToken == 4
\* the estimate without its minimum
_try_token_len_NoMinimum(text) == Len(text) \div CharsPerToken

_try_token_len(text) == Max(1, Len(text) \div CharsPerToken)

RECURSIVE SplitFrom(_, _, _, _)
\* re.split(r"(?<=[terminators])\s+", t) scanning from position k; cur is the
\* piece being read, acc the pieces already cut
SplitFrom(t, k, cur, acc) ==
    IF k > Len(t) THEN Append(acc, cur)
    ELSE IF t[k] \in WhiteChars /\ k > 1 /\ t[k - 1] \in Terminators
         THEN SplitFrom(LStrip(SubSeq(t, k, Len(t))), 1, <<>>, Append(acc, cur))
         ELSE SplitFrom(t, k + 1, Append(cur, t[k]), acc)

_sent_split(text) ==
    SelectSeq(SplitFrom(Strip(text), 1, <<>>, <<>>), LAMBDA s : s # <<>>)

MaxSents == 8
\* _sent_split(it.get("text", ""))[:8]
ItemSents(it) ==
    LET split == _sent_split(it.text)
    IN  SubSeq(split, 1, Min(MaxSents, Len(split)))

\* the lookup with the single url taken first
ItemUrls_UrlFirst(it) ==
    LET urls == IF it.url # "" THEN <<it.url>>
                ELSE IF it.merged_urls # <<>> THEN it.merged_urls
                ELSE it.urls
    IN  SelectSeq(urls, LAMBDA u : u # "")

\* it.get("merged_urls") or (it.get("urls") or []) or ([it.get("url")] if it.get("url") else [])
\* followed by [str(u) for u in urls if u]; "" is the absent / falsy url
ItemUrls(it) ==
    LET urls == IF it.merged_urls # <<>> THEN it.merged_urls
                ELSE IF it.urls # <<>> THEN it.urls
                ELSE IF it.url # "" THEN <<it.url>> ELSE <<>>
    IN  SelectSeq(urls, LAMBDA u : u # "")

Excerpt(text, urls) == [text |-> text, urls |-> urls]
PackedTopic(topic_id, label, excerpts) ==
    [topic_id |-> topic_id, label |-> label, excerpts |-> excerpts]

RECURSIVE TokenSum(_)
\* sum(_try_token_len(e.text) for e in ex)
TokenSum(ex) ==
    IF ex = <<>> THEN 0 ELSE _try_token_len(Head(ex).text) + TokenSum(Tail(ex))

\* a cap that forgets the global remainder
ClusterCap_NoRemaining(rem, pmin, pmax) == pmax

\* pack line 72: the cap pack hands to pack_cluster
ClusterCap(rem, pmin, pmax) == IF rem > pmin THEN Min(pmax, rem) ELSE rem

----------------------------------------------------------------------------
(* Inputs of pack *)

\* sentences of 4, 9, 14 and 2 characters: 1, 2, 3 and 1 estimated tokens
SentA == Rep("a", 3) \o <<".">>
SentB == Rep("b", 8) \o <<"!">>
SentC == Rep("c", 13) \o <<".">>
SentD == Rep("d", 1) \o <<"?">>

\* eight times SentD, then SentA as a ninth sentence
NineSentences ==
    Concat([k \in 1..8 |-> SentD \o <<" ">>]) \o SentA

TextAB == SentA \o <<" ">> \o SentB
TextCD == <<" ">> \o SentC \o <<" ", "\t">> \o SentD
TextBBA == SentB \o <<" ">> \o SentB \o <<" ">> \o SentA

PackTexts == { <<>>, SentA, TextAB, TextCD, TextBBA, NineSentences }

\* the url fields of the item with a given text: all three present (one
\* merged url empty) for SentA, urls and url for TextAB, none at all for
\* NineSentences, url alone for the others
PackItem(text) ==
    [text |-> text,
     merged_urls |-> IF text = SentA THEN <<"u1", "", "u2">> ELSE <<>>,
     urls |-> IF text \in {SentA, TextAB} THEN <<"u3">> ELSE <<>>,
     url |-> IF text = NineSentences THEN "" ELSE "u4"]
PackItemPool == {PackItem(t) : t \in PackTexts}

MaxClusters == 2
MaxClusterItems == 2
MaxBudget == 4
MaxPerClusterMin == 2
MaxPerClusterMax == 3

\* the k-th cluster of a run
Cluster(k, its) == [topic_id |-> k, topic_label |-> "T", items |-> its]

ClusterLists ==
    {[k \in 1..Len(q) |-> Cluster(k, q[k])] :
        q \in SeqsUpTo(SeqsUpTo(PackItemPool, MaxClusterItems), MaxClusters)}

NoTok ==
    /\ tok_text = <<>>
    /\ tok_len = 0

NoRerank ==
    /\ strategy = "none"
    /\ model_name = ""
    /\ candidate_texts = <<>>
    /\ cand_embs = <<>>
    /\ query_vec = <<>>
    /\ mmr_lambda = <<0, 1>>
    /\ topk = <<>>
    /\ ce_scores = <<>>
    /\ ce_order = <<>>
    /\ order = <<>>

NoCluster ==
    /\ cluster_embs = <<>>
    /\ algo = "hdbscan"
    /\ min_cluster_size = 0
    /\ cluster_k = 0
    /\ attach_noise = FALSE
    /\ raw_labels = <<>>
    /\ labels = <<>>

NoCanon ==
    /\ canon_in = <<>>
    /\ canon_out = <<>>
    /\ canon_again = <<>>

NoBuckets ==
    /\ lsh_simhashes = <<>>
    /\ lsh_bits = 0
    /\ lsh_bands = 0
    /\ lsh_buckets = <<>>

\* no run of _execute_pipeline is modelled
NoRun ==
    /\ bundles = <<>>
    /\ packer_enabled = FALSE
    /\ use_multi_stage = FALSE
    /\ pack_raises = <<>>
    /\ summary_result = "none"
    /\ output_raises = {}
    /\ packed_json = "absent"
    /\ out_dir_made = FALSE
    /\ run_log = <<>>
    /\ generated_files = FALSE
    /\ published = {}

NoStage == NoCluster /\ NoCanon /\ NoBuckets /\ NoRun

\* the stand-alone function calls are not part of the run
NoFn == NoTok /\ NoRerank /\ NoStage

NoDedup ==
    /\ items = <<>>
    /\ embs = <<>>
    /\ orig = <<>>
    /\ threshold = <<0, 1>>
    /\ merge_sources = FALSE
    /\ fp_trace = <<>>
    /\ sem_trace = <<>>

NoFrame ==
    /\ min_tokens = 0
    /\ max_tokens = 0
    /\ used = {}
    /\ total = 0
    /\ out = <<>>
    /\ ii = 1
    /\ sents = <<>>
    /\ si = 1

NoPack ==
    /\ clusters = <<>>
    /\ token_budget = 0
    /\ per_cluster_min = 0
    /\ per_cluster_max = 0
    /\ remaining = 0
    /\ topics = <<>>
    /\ ci = 1
    /\ NoFrame

\* pack, lines 69-70: the state on entry to the loop
InitPack ==
    /\ clusters \in ClusterLists
    /\ token_budget \in 0..MaxBudget
    /\ per_cluster_min \in 0..MaxPerClusterMin
    /\ per_cluster_max \in 1..MaxPerClusterMax
    /\ remaining = token_budget
    /\ topics = <<>>
    /\ ci = 1
    /\ pc = "pack"
    /\ NoFrame
    /\ NoDedup
    /\ NoFn

----------------------------------------------------------------------------
(* pack_cluster, one action per iteration *)

CurItems == clusters[ci].items
\* line 45, for the k-th item of the cluster, none when the items are used up
SentsOf(its, k) == IF k <= Len(its) THEN ItemSents(its[k]) ELSE <<>>
CurSents == sents
\* s_norm = s.strip()
CurSent == Strip(CurSents[si])

InItem == pc = "pack_cluster" /\ ii <= Len(CurItems)
AtSentence == InItem /\ si <= Len(CurSents)

\* the test without "or s_norm in used"
Skipped_BlankOnly(s) == s = <<>>

\* line 49: if not s_norm or s_norm in used
Skipped(s) == s = <<>> \/ s \in used
\* the floor test made strict
StopsAtCap_StrictMin(tl) == total + tl > max_tokens /\ total > min_tokens
\* the floor test dropped: every sentence over the cap ends the packing
StopsAtCap_NoFloor(tl) == total + tl > max_tokens

\* line 52: if total + tl > max_tokens and total >= min_tokens
StopsAtCap(tl) == total + tl > max_tokens /\ total >= min_tokens

\* pack line 72-73: the call of pack_cluster
CallPackCluster ==
    /\ pc = "pack"
    /\ ci <= Len(clusters)
    /\ min_tokens' = per_cluster_min
    /\ max_tokens' = ClusterCap(remaining, per_cluster_min, per_cluster_max)
    /\ used' = {}
    /\ total' = 0
    /\ out' = <<>>
    /\ ii' = 1
    /\ sents' = SentsOf(clusters[ci].items, 1)
    /\ si' = 1
    /\ pc' = "pack_cluster"
    /\ UNCHANGED <<clusters, token_budget, per_cluster_min, per_cluster_max,
                   remaining, topics, ci>>
    /\ UNCHANGED dedupVars
    /\ UNCHANGED fnVars

\* lines 44-47: the sentences of the item are used up, on to the next item
NextItem ==
    /\ InItem
    /\ si > Len(CurSents)
    /\ ii' = ii + 1
    /\ sents' = SentsOf(CurItems, ii + 1)
    /\ si' = 1
    /\ UNCHANGED <<min_tokens, max_tokens, used, total, out>>
    /\ UNCHANGED packVars
    /\ UNCHANGED dedupVars
    /\ UNCHANGED fnVars

\* lines 48-50: continue
SkipSentence ==
    /\ AtSentence
    /\ Skipped(CurSent)
    /\ si' = si + 1
    /\ UNCHANGED <<min_tokens, max_tokens, used, total, out, ii, sents>>
    /\ UNCHANGED packVars
    /\ UNCHANGED dedupVars
    /\ UNCHANGED fnVars

\* lines 51-53: return out
StopAtCap ==
    /\ AtSentence
    /\ ~Skipped(CurSent)
    /\ StopsAtCap(_try_token_len(CurSent))
    /\ pc' = "returned"
    /\ UNCHANGED <<clusters, token_budget, per_cluster_min, per_cluster_max,
                   remaining, topics, ci>>
    /\ UNCHANGED frameVars
    /\ UNCHANGED dedupVars
    /\ UNCHANGED fnVars

\* lines 54-56
AcceptSentence ==
    /\ AtSentence
    /\ ~Skipped(CurSent)
    /\ ~StopsAtCap(_try_token_len(CurSent))
    /\ out' = Append(out, Excerpt(CurSent, ItemUrls(CurItems[ii])))
    /\ used' = used \cup {CurSent}
    /\ total' = total + _try_token_len(CurSent)
    /\ si' = si + 1
    /\ UNCHANGED <<min_tokens, max_tokens, ii, sents>>
    /\ UNCHANGED packVars
    /\ UNCHANGED dedupVars
    /\ UNCHANGED fnVars

\* line 57: every item was read, return out
ItemsExhausted ==
    /\ pc = "pack_cluster"
    /\ ii > Len(CurItems)
    /\ pc' = "returned"
    /\ UNCHANGED <<clusters, token_budget, per_cluster_min, per_cluster_max,
                   remaining, topics, ci>>
    /\ UNCHANGED frameVars
    /\ UNCHANGED dedupVars
    /\ UNCHANGED fnVars

----------------------------------------------------------------------------
(* pack, the rest of the loop body *)

\* lines 74-76
TopicAppended ==
    /\ topics' = Append(topics,
                    PackedTopic(clusters[ci].topic_id, clusters[ci].topic_label, out))
    /\ remaining' = Max(0, remaining - TokenSum(out))

\* the break test off by one: "if remaining < 0"
ClusterPacked_BreakBelowZero ==
    /\ pc = "returned"
    /\ TopicAppended
    /\ remaining' >= 0
    /\ ci' = ci + 1
    /\ pc' = "pack"
    /\ UNCHANGED <<clusters, token_budget, per_cluster_min, per_cluster_max>>
    /\ UNCHANGED frameVars
    /\ UNCHANGED dedupVars
    /\ UNCHANGED fnVars

\* lines 74-78 with remaining still positive: on to the next cluster
ClusterPacked ==
    /\ pc = "returned"
    /\ TopicAppended
    /\ remaining' > 0
    /\ ci' = ci + 1
    /\ pc' = "pack"
    /\ UNCHANGED <<clusters, token_budget, per_cluster_min, per_cluster_max>>
    /\ UNCHANGED frameVars
    /\ UNCHANGED dedupVars
    /\ UNCHANGED fnVars

\* lines 74-78 with the budget used up: break, then the return of line 79
BudgetExhausted ==
    /\ pc = "returned"
    /\ TopicAppended
    /\ remaining' <= 0
    /\ pc' = "done"
    /\ UNCHANGED <<clusters, token_budget, per_cluster_min, per_cluster_max, ci>>
    /\ UNCHANGED frameVars
    /\ UNCHANGED dedupVars
    /\ UNCHANGED fnVars

\* line 71 with no cluster left, then the return of line 79
ClustersExhausted ==
    /\ pc = "pack"
    /\ ci > Len(clusters)
    /\ pc' = "done"
    /\ UNCHANGED <<clusters, token_budget, per_cluster_min, per_cluster_max,
                   remaining, topics, ci>>
    /\ UNCHANGED frameVars
    /\ UNCHANGED dedupVars
    /\ UNCHANGED fnVars

NextPack ==
    \/ CallPackCluster
    \/ NextItem
    \/ SkipSentence
    \/ StopAtCap
    \/ AcceptSentence
    \/ ItemsExhausted
    \/ ClusterPacked
    \/ BudgetExhausted
    \/ ClustersExhausted

SpecPack == InitPack /\ [][NextPack]_vars

\* the estimated tokens of all excerpts of all topics
RECURSIVE TopicsTokens(_)
TopicsTokens(ts) ==
    IF ts = <<>> THEN 0 ELSE TokenSum(Head(ts).excerpts) + TopicsTokens(Tail(ts))

----------------------------------------------------------------------------
(* _try_token_len called on its own *)

MaxTokenTextLen == 6
TokenTexts == SeqsUpTo({"a", "."}, MaxTokenTextLen)

InitTokenLen ==
    /\ tok_text \in TokenTexts
    /\ tok_len = 0
    /\ pc = "token_len"
    /\ NoPack
    /\ NoDedup
    /\ NoRerank
    /\ NoStage

\* _try_token_len(text), no tokenizer being installed
EstimateTokens ==
    /\ pc = "token_len"
    /\ tok_len' = _try_token_len(tok_text)
    /\ pc' = "estimated"
    /\ UNCHANGED tok_text
    /\ UNCHANGED <<clusters, token_budget, per_cluster_min, per_cluster_max,
                   remaining, topics, ci>>
    /\ UNCHANGED frameVars
    /\ UNCHANGED dedupVars
    /\ UNCHANGED rerankVars
    /\ UNCHANGED stageVars

NextTokenLen == EstimateTokens
SpecTokenLen == InitTokenLen /\ [][NextTokenLen]_vars

\* C15 as stated: without a tokenizer the token length of a text is its
\* character length divided by 4, rounded up, with a minimum of 1.
C15_RoundedUp ==
    pc = "estimated" =>
        /\ tok_len >= 1
        /\ Len(tok_text) = 0 => tok_len = 1
        /\ Len(tok_text) > 0 =>
               (CharsPerToken * (tok_len - 1) < Len(tok_text)
                   /\ Len(tok_text) <= CharsPerToken * tok_len)

\* C15 (amended): without a tokenizer the token length of a text is its
\* character length divided by 4, rounded down, with a minimum of 1.
C15_RoundedDown ==
    pc = "estimated" =>
        /\ tok_len >= 1
        /\ Len(tok_text) < CharsPerToken => tok_len = 1
        /\ Len(tok_text) >= CharsPerToken =>
               (CharsPerToken * tok_len <= Len(tok_text)
                   /\ Len(tok_text) < CharsPerToken * (tok_len + 1))

\* a text of five characters was estimated at one token
C15_Witness ==
    /\ pc = "estimated"
    /\ Len(tok_text) = CharsPerToken + 1
    /\ tok_len = 1

----------------------------------------------------------------------------
(* Properties of pack and pack_cluster *)

\* the step that calls pack_cluster for the next cluster
PacksACluster == pc = "pack" /\ pc' = "pack_cluster"

\* the sentence at hand would push the running total over max_tokens
OverCap == total + _try_token_len(CurSent) > max_tokens

\* C1 as stated: the estimated tokens of all excerpts of all topics returned by
\* pack never exceed token_budget.
C1_WithinBudget == pc = "done" => TopicsTokens(topics) <= token_budget

\* C1 (amended): the returned excerpts exceed token_budget only through the last
\* topic, and only when that topic accepted its last sentence while its running
\* total was still below per_cluster_min; the topics before the last never
\* exceed token_budget.
C1_OverBudgetOnlyBelowMin ==
    (pc = "done" /\ TopicsTokens(topics) > token_budget) =>
        /\ topics # <<>>
        /\ Last(topics).excerpts # <<>>
        /\ TokenSum(Front(Last(topics).excerpts)) < per_cluster_min
        /\ TopicsTokens(Front(topics)) <= token_budget

\* two topics returned, the second one taking the total over the budget
C1_Witness ==
    /\ pc = "done"
    /\ Len(topics) = MaxClusters
    /\ TopicsTokens(topics) > token_budget
    /\ TopicsTokens(Front(topics)) > 0

\* C2 as stated: a sentence that would push the running total over max_tokens
\* is never added to the output.
C2_OverCapNeverAdded == [][(AtSentence /\ OverCap) => out' = out]_vars

\* C2 (amended): a sentence that reaches the budget test and would push the
\* running total over max_tokens ends the packing at once, unadded, when the
\* total has reached min_tokens; when the total is still below min_tokens it is
\* accepted (emitted, total raised by its length) and packing continues.
C2_OverCapStopsOrFillsFloor ==
    [][(AtSentence /\ ~Skipped(CurSent) /\ OverCap) =>
          IF total >= min_tokens
          THEN pc' = "returned" /\ out' = out /\ total' = total
          ELSE /\ pc' = "pack_cluster"
               /\ Len(out') = Len(out) + 1
               /\ Last(out').text = CurSent
               /\ total' = total + _try_token_len(CurSent)
               /\ <<ii', si'>> = <<ii, si + 1>>]_vars

\* a sentence was accepted over the cap and packing goes on behind it
C2_Witness ==
    /\ pc = "pack_cluster"
    /\ out # <<>>
    /\ total > max_tokens
    /\ total - _try_token_len(Last(out).text) < min_tokens

DistinctTexts(ex) == \A a, b \in 1..Len(ex) : a # b => ex[a].text # ex[b].text

\* C16: within one pack_cluster call an exact sentence text (after trimming)
\* is accepted at most once, also when it occurs in different items of the
\* cluster: the excerpt texts of the running call and of every packed topic
\* are pairwise distinct, trimmed and not blank.
C16_SentenceAcceptedOnce ==
    /\ DistinctTexts(out)
    /\ \A k \in 1..Len(out) : out[k].text = Strip(out[k].text) /\ out[k].text # <<>>
    /\ pc = "pack_cluster" => used = {out[k].text : k \in 1..Len(out)}
    /\ \A t \in 1..Len(topics) : DistinctTexts(topics[t].excerpts)

\* the first sentence of the second item repeats the one accepted from the
\* first item and was passed over, under a cap that had room for it
C16_Witness ==
    /\ pc = "pack_cluster"
    /\ ii = 2
    /\ si = 2
    /\ Len(out) = 1
    /\ ItemSents(CurItems[1]) = <<out[1].text>>
    /\ Strip(CurSents[1]) = out[1].text
    /\ total + _try_token_len(out[1].text) <= max_tokens

\* the urls an excerpt of item it has to carry: merged_urls if non-empty, else
\* urls, else the single url; an empty string is no url
SourceUrls(it) ==
    LET nonEmpty(q) == SelectSeq(q, LAMBDA u : u # "")
    IN  CASE it.merged_urls # <<>> -> nonEmpty(it.merged_urls)
          [] it.merged_urls = <<>> /\ it.urls # <<>> -> nonEmpty(it.urls)
          [] OTHER -> nonEmpty(<<it.url>>)

\* the excerpts a cluster can give: for every item in order, its first eight
\* sentences in order, trimmed, with the item's urls
Candidates(c) ==
    Concat([k \in 1..Len(c.items) |->
               LET split == _sent_split(c.items[k].text)
               IN  [n \in 1..Min(8, Len(split)) |->
                       Excerpt(Strip(split[n]), SourceUrls(c.items[k]))]])

RECURSIVE IsSubsequence(_, _)
\* q can be got from r by dropping elements
IsSubsequence(q, r) ==
    IF q = <<>> THEN TRUE
    ELSE IF r = <<>> THEN FALSE
    ELSE IF Head(q) = Head(r) THEN IsSubsequence(Tail(q), Tail(r))
    ELSE IsSubsequence(q, Tail(r))

HasNonBlankSentence(c) ==
    \E k \in 1..Len(c.items) :
        \E n \in 1..Len(_sent_split(c.items[k].text)) :
            Strip(_sent_split(c.items[k].text)[n]) # <<>>

\* C17: a cluster with at least one non-blank sentence that pack packs with
\* positive token_budget and per_cluster_min gets a topic with a non-empty
\* excerpt list; every excerpt text is a trimmed sentence among the first 8
\* sentences of one of the cluster's items, the excerpts keep item order then
\* sentence order, and each carries its source item's urls (merged_urls if
\* non-empty, else urls, else the single url).  The first cluster is always
\* packed.
C17_TopicDrawnFromCluster ==
    /\ \A t \in 1..Len(topics) :
           /\ IsSubsequence(topics[t].excerpts, Candidates(clusters[t]))
           /\ topics[t].topic_id = clusters[t].topic_id
           /\ (token_budget > 0 /\ per_cluster_min > 0 /\ HasNonBlankSentence(clusters[t]))
                  => topics[t].excerpts # <<>>
    /\ (pc = "done" /\ clusters # <<>>) => topics # <<>>

\* a topic with excerpts of two items, the first with the merged urls, the
\* second with the urls list, returned together with a topic whose item has
\* nine sentences: the ninth was not packed although the cluster's floor was
\* not reached
C17_Witness ==
    /\ pc = "done"
    /\ Len(topics) = 2
    /\ topics[1].excerpts = <<Excerpt(SentA, <<"u1", "u2">>), Excerpt(SentB, <<"u3">>)>>
    /\ clusters[2].items = <<PackItem(NineSentences)>>
    /\ topics[2].excerpts = <<Excerpt(SentD, <<>>)>>
    /\ TokenSum(topics[2].excerpts) < per_cluster_min

\* C10 as stated: a cluster is packed only while the remaining budget is
\* greater than zero.
C10_PackedOnlyWithBudget == [][PacksACluster => remaining > 0]_vars

\* C10 (amended): the first cluster is always packed; every later cluster is
\* packed only while the remaining budget is greater than zero.  Topics are only
\* ever appended, and the returned topics are, in order, those of a prefix of
\* the clusters, the whole list unless the budget ran out.
C10_LaterClustersNeedBudget ==
    [][/\ PacksACluster => (ci = 1 \/ remaining > 0)
       /\ topics' = topics \/ Front(topics') = topics
       /\ pc' = "done" =>
              /\ Len(topics') <= Len(clusters)
              /\ \A k \in 1..Len(topics') : topics'[k].topic_id = clusters[k].topic_id
              /\ Len(topics') < Len(clusters) => remaining' = 0]_vars

\* the budget ran out after the first cluster: its topic is returned, the
\* second cluster has none
C10_Witness ==
    /\ pc = "done"
    /\ topics # <<>>
    /\ Len(topics) < Len(clusters)
    /\ token_budget > 0

----------------------------------------------------------------------------
(* dedup.py: fingerprint stage *)

RECURSIVE Uniq(_)
\* list(dict.fromkeys(q)): first occurrences, in order
Uniq(q) ==
    IF q = <<>> THEN <<>>
    ELSE LET rest == Uniq(Front(q))
         IN  IF \E k \in 1..Len(rest) : rest[k] = Last(q) THEN rest ELSE Append(rest, Last(q))

\* the compatibility decomposition of one character, the first half of
\* unicodedata.normalize("NFKC", c)
Nfkc(c) ==
    CASE c = "NO-BREAK SPACE" -> <<" ">>
      [] c = "FULLWIDTH R" -> <<"R">>
      [] c = "DIAERESIS" -> <<" ", "COMBINING DIAERESIS">>
      [] c = "a WITH DIAERESIS" -> <<"a", "COMBINING DIAERESIS">>
      [] OTHER -> <<c>>

RECURSIVE Compose(_)
\* the canonical composition, the second half of the normalization
Compose(t) ==
    IF Len(t) < 2 THEN t
    ELSE IF t[1] = "a" /\ t[2] = "COMBINING DIAERESIS"
         THEN <<"a WITH DIAERESIS">> \o Compose(SubSeq(t, 3, Len(t)))
         ELSE <<t[1]>> \o Compose(Tail(t))

\* unicodedata.normalize("NFKC", text)
Normalize(text) == Compose(Concat([k \in 1..Len(text) |-> Nfkc(text[k])]))

RECURSIVE CollapseSpaces(_)
\* re.sub(r"\s+", " ", t)
CollapseSpaces(t) ==
    IF t = <<>> THEN <<>>
    ELSE IF Head(t) \in WhiteChars
         THEN <<" ">> \o CollapseSpaces(LStrip(t))
         ELSE <<Head(t)>> \o CollapseSpaces(Tail(t))

\* the two quote substitutions, lines 22-23
StraightQuote(c) ==
    CASE c \in {"LEFT DOUBLE QUOTE", "RIGHT DOUBLE QUOTE"} -> "\""
      [] c \in {"LEFT SINGLE QUOTE", "RIGHT SINGLE QUOTE"} -> "'"
      [] OTHER -> c

\* the function with the trimming done before the normalization
_canonicalize_StripFirst(text) ==
    LET normalized == Normalize(Strip(text))
        collapsed == CollapseSpaces(normalized)
    IN  [k \in 1..Len(collapsed) |-> StraightQuote(collapsed[k])]

\* lines 19-24, for a text; None is read as the empty text (text or "")
_canonicalize(text) ==
    LET normalized == Strip(Normalize(text))
        collapsed == CollapseSpaces(normalized)
    IN  [k \in 1..Len(collapsed) |-> StraightQuote(collapsed[k])]

\* str.lower() of one character
Lower(c) ==
    CASE c = "R" -> "r"
      [] c = "E" -> "e"
      [] c = "C" -> "c"
      [] OTHER -> c

\* the characters \w matches (after lower())
WordChars == {"a", "c", "e", "l", "r", "0", "1", "_"}

RECURSIVE TokensFrom(_, _, _)
\* re.findall(r"\w+", t): cur is the word being read, acc the words found
TokensFrom(t, cur, acc) ==
    IF t = <<>> THEN (IF cur = <<>> THEN acc ELSE Append(acc, cur))
    ELSE IF Head(t) \in WordChars
         THEN TokensFrom(Tail(t), Append(cur, Head(t)), acc)
         ELSE TokensFrom(Tail(t), <<>>, IF cur = <<>> THEN acc ELSE Append(acc, cur))

Tokens(text) == TokensFrom([k \in 1..Len(text) |-> Lower(text[k])], <<>>, <<>>)

\* the parameters of dedup_fingerprint, scaled down from 64 / 8 / 3
Bits == 8
Bands == 2
HamThresh == 1

\* int(hashlib.md5(token).hexdigest(), 16) mod 2^Bits for the one-letter tokens
\* of the model's texts (the true digests' low byte)
Md5(token) ==
    CASE token = <<"a">> -> 97
      [] token = <<"c">> -> 51
      [] token = <<"e">> -> 50
      [] token = <<"l">> -> 51
      [] token = <<"r">> -> 49

Bit(h, k) == (h \div 2^k) % 2

RECURSIVE Weight(_, _)
\* v[k] after the token loop of lines 29-32
Weight(toks, k) ==
    IF toks = <<>> THEN 0
    ELSE (IF Bit(Md5(Head(toks)), k) = 1 THEN 1 ELSE -1) + Weight(Tail(toks), k)

RECURSIVE SumBits(_, _)
SumBits(f, k) == IF k < 0 THEN 0 ELSE f[k] * 2^k + SumBits(f, k - 1)

_simhash(text, bits) ==
    LET toks == Tokens(text)
    IN  SumBits([k \in 0..(bits - 1) |-> IF Weight(toks, k) >= 0 THEN 1 ELSE 0], bits - 1)

\* (a ^ b).bit_count() for fingerprints of Bits bits
_hamming(a, b) == Cardinality({k \in 0..(Bits - 1) : Bit(a, k) # Bit(b, k)})

\* line 41
BandWidth(bits, bands) == Max(1, bits \div Max(1, bands))
\* the key without the mask that cuts the window out of the shifted value
BandKey_Unmasked(sh, b, bits, bands) ==
    LET r == BandWidth(bits, bands)
    IN  <<b, sh \div 2^(b * r)>>

\* line 45
BandKey(sh, b, bits, bands) ==
    LET r == BandWidth(bits, bands)
    IN  <<b, (sh \div 2^(b * r)) % 2^r>>

\* the buckets in dictionary (first insertion) order, each with its members in
\* ascending index order
_band_buckets(simhashes, bits, bands) ==
    LET n == Len(simhashes)
        keysOf(idx) == [b \in 1..bands |-> BandKey(simhashes[idx], b - 1, bits, bands)]
        keys == Uniq(Concat([idx \in 1..n |-> keysOf(idx)]))
        members(key) ==
            SelectSeq([idx \in 1..n |-> idx],
                      LAMBDA idx : \E b \in 1..bands : keysOf(idx)[b] = key)
    IN  [k \in 1..Len(keys) |-> [key |-> keys[k], cand |-> members(keys[k])]]

\* lines 60-65: float(ts) for a number, 0.0 for anything else; <<>> is the
\* absent timestamp
ts_score(it) == IF it.timestamp = <<>> THEN 0 ELSE it.timestamp[1]

\* line 66 divides by ts_score + 1.0 outside the try block: ZeroDivisionError
ScoreRaises(it) == ts_score(it) + 1 = 0

\* the score of _select_representative in millionths:
\* 0.7 * tanh(length / 800) + 0.3 * ts / (ts + 1), with tanh x taken as
\* x - x^3/3, exact to a millionth for the short texts of the model
score_item(it) ==
    LET length == Len(Strip(it.text))
        tanh == length * 1250 - (length * length * length) \div 1536
    IN  (7 * tanh) \div 10 + (300000 * ts_score(it)) \div (ts_score(it) + 1)

\* max(idxs, key=score_item): the first index of idxs with the highest score
_select_representative(its, idxs) ==
    LET best == CHOOSE k \in 1..Len(idxs) :
                    /\ \A m \in 1..Len(idxs) : score_item(its[idxs[m]]) <= score_item(its[idxs[k]])
                    /\ \A m \in 1..(k - 1) : score_item(its[idxs[m]]) < score_item(its[idxs[k]])
    IN  idxs[best]

\* lines 88-89: the first family with a member within ham_thresh of i, 0 if none
FirstFamily(family, i, shs, ham_thresh) ==
    LET near(g) == \E m \in 1..Len(family[g]) : _hamming(shs[i], shs[family[g][m]]) <= ham_thresh
    IN  IF \E g \in 1..Len(family) : near(g)
        THEN CHOOSE g \in 1..Len(family) : near(g) /\ \A h \in 1..(g - 1) : ~near(h)
        ELSE 0

RECURSIVE FormFamilies(_, _, _, _)
\* lines 85-94: the families of one bucket
FormFamilies(cand, family, shs, ham_thresh) ==
    IF cand = <<>> THEN family
    ELSE LET i == Head(cand)
             g == FirstFamily(family, i, shs, ham_thresh)
         IN  FormFamilies(Tail(cand),
                          IF g = 0 THEN Append(family, <<i>>)
                          ELSE [family EXCEPT ![g] = Append(@, i)],
                          shs, ham_thresh)

\* lines 103-108: the urls of a family's members
FamilyUrls(its, grp) ==
    LET us == [m \in 1..Len(grp) |-> its[grp[m]].url]
    IN  SelectSeq(us, LAMBDA u : u # "")

\* lines 75-109: every family of every bucket, in processing order, with the
\* bucket it was formed in and its representative
FingerprintFamilies(its, bits, bands, ham_thresh) ==
    LET shs == [k \in 1..Len(its) |-> _simhash(_canonicalize(its[k].text), bits)]
        buckets == _band_buckets(shs, bits, bands)
        ofBucket(k) ==
            LET family == FormFamilies(buckets[k].cand, <<>>, shs, ham_thresh)
            IN  [g \in 1..Len(family) |->
                    [key |-> buckets[k].key, grp |-> family[g],
                     rep |-> _select_representative(its, family[g])]]
    IN  Concat([k \in 1..Len(buckets) |-> ofBucket(k)])

RECURSIVE SortedSeq(_)
\* sorted(S) for a set of integers
SortedSeq(S) ==
    IF S = {} THEN <<>>
    ELSE LET lo == CHOOSE x \in S : \A y \in S : x <= y
         IN  <<lo>> \o SortedSeq(S \ {lo})

\* the union without the representative's url put in front
MergedUrls_RepUrlNotFirst(rep_url, sources) == Uniq(sources)

\* line 119: list(dict.fromkeys(([rep_url] if rep_url else []) + merged_sources[i]))
MergedUrls(rep_url, sources) ==
    Uniq((IF rep_url # "" THEN <<rep_url>> ELSE <<>>) \o sources)

\* the keep list left in the order the representatives were discovered
KeepSorted_DiscoveryOrder(keep) == keep

\* line 112: sorted(set(keep))
KeepSorted(keep) == SortedSeq({keep[k] : k \in 1..Len(keep)})

\* the exceptions a call can end with
NoError == "none"
ZeroDivisionError == "ZeroDivisionError"
ValueError == "ValueError"

\* lines 72-124 of dedup_fingerprint: keep the representatives, in index order,
\* each with the urls of the families it represents.  Every item is a member
\* of some family of some bucket, so line 97 scores every item: the call ends
\* with the exception of line 66 as soon as one score raises.
dedup_fingerprint(its, bits, bands, ham_thresh) ==
    IF its = <<>>
    THEN [error |-> NoError, out |-> its, keep |-> <<>>, families |-> <<>>]
    ELSE IF \E k \in 1..Len(its) : ScoreRaises(its[k])
    THEN [error |-> ZeroDivisionError, out |-> <<>>, keep |-> <<>>, families |-> <<>>]
    ELSE
    LET fams == FingerprintFamilies(its, bits, bands, ham_thresh)
        \* lines 98-100: each representative once, in discovery order
        keep == Uniq([f \in 1..Len(fams) |-> fams[f].rep])
        keep_sorted == KeepSorted(keep)
        merged_sources(i) ==
            Concat([f \in 1..Len(fams) |->
                       IF fams[f].rep = i THEN FamilyUrls(its, fams[f].grp) ELSE <<>>])
        kept(i) ==
            IF merged_sources(i) # <<>>
            THEN [its[i] EXCEPT !.merged_urls = MergedUrls(its[i].url, merged_sources(i))]
            ELSE its[i]
    IN  [error |-> NoError,
         out |-> [k \in 1..Len(keep_sorted) |-> kept(keep_sorted[k])],
         keep |-> keep_sorted,
         families |-> fams]

----------------------------------------------------------------------------
(* dedup.py: semantic stage *)

RECURSIVE Dot(_, _)
Dot(u, v) == IF u = <<>> THEN 0 ELSE Head(u) * Head(v) + Dot(Tail(u), Tail(v))

\* the threshold test made strict: similarity > threshold
SimGE_Strict(u, v, thr) ==
    LET d == Dot(u, v)
        nn == Dot(u, u) * Dot(v, v)
        lhs == thr[2] * thr[2] * d * d
        rhs == thr[1] * thr[1] * nn
    IN  IF nn = 0 THEN thr[1] < 0
        ELSE IF thr[1] >= 0 THEN d >= 0 /\ lhs > rhs
        ELSE d >= 0 \/ lhs < rhs

\* cosine_similarity(embs)[i, j] >= threshold, in exact arithmetic: the
\* threshold is the rational thr[1] / thr[2] (thr[2] > 0) and the cosine of u
\* and v is Dot(u, v) / sqrt(Dot(u, u) * Dot(v, v)), 0 when a row is all zero
SimGE(u, v, thr) ==
    LET d == Dot(u, v)
        nn == Dot(u, u) * Dot(v, v)
        lhs == thr[2] * thr[2] * d * d
        rhs == thr[1] * thr[1] * nn
    IN  IF nn = 0 THEN thr[1] <= 0
        ELSE IF thr[1] >= 0 THEN d >= 0 /\ lhs >= rhs
        ELSE d >= 0 \/ lhs <= rhs

RECURSIVE SemanticScan_RemovedAnchors(_, _, _, _)
\* the scan without "if not keep_mask[i]: continue": removed rows anchor too
SemanticScan_RemovedAnchors(i, st, vecs, thr) ==
    LET n == Len(vecs)
        hit(j) == j > i /\ st.keep_mask[j] /\ SimGE(vecs[i], vecs[j], thr)
    IN  IF i > n THEN st
        ELSE SemanticScan_RemovedAnchors(i + 1,
                 [keep_mask |-> [j \in 1..n |-> st.keep_mask[j] /\ ~hit(j)],
                  rep_for |-> [j \in 1..n |-> IF hit(j) THEN i ELSE st.rep_for[j]]],
                 vecs, thr)

RECURSIVE SemanticScan(_, _, _, _)
\* lines 144-150 from row i on: st is [keep_mask, rep_for]
SemanticScan(i, st, vecs, thr) ==
    LET n == Len(vecs)
        hit(j) == j > i /\ st.keep_mask[j] /\ SimGE(vecs[i], vecs[j], thr)
    IN  IF i > n THEN st
        ELSE IF ~st.keep_mask[i] THEN SemanticScan(i + 1, st, vecs, thr)
        ELSE SemanticScan(i + 1,
                 [keep_mask |-> [j \in 1..n |-> st.keep_mask[j] /\ ~hit(j)],
                  rep_for |-> [j \in 1..n |-> IF hit(j) THEN i ELSE st.rep_for[j]]],
                 vecs, thr)

RECURSIVE AttachUrls_NoMembershipTest(_, _, _, _)
\* the attachment without "if str(url) not in lst"
AttachUrls_NoMembershipTest(j, rep, st, its) ==
    IF j = 0 THEN IF its[rep].url # "" THEN <<its[rep].url>> ELSE <<>>
    ELSE LET lst == AttachUrls_NoMembershipTest(j - 1, rep, st, its)
             url == its[j].url
         IN  IF ~st.keep_mask[j] /\ st.rep_for[j] = rep /\ url # ""
             THEN Append(lst, url)
             ELSE lst

RECURSIVE AttachUrls(_, _, _, _)
\* lines 164-172 for the removed rows 1..j: the urls attached to retained row rep
AttachUrls(j, rep, st, its) ==
    IF j = 0 THEN IF its[rep].url # "" THEN <<its[rep].url>> ELSE <<>>
    ELSE LET lst == AttachUrls(j - 1, rep, st, its)
             url == its[j].url
         IN  IF ~st.keep_mask[j] /\ st.rep_for[j] = rep /\ url # ""
                /\ \A k \in 1..Len(lst) : lst[k] # url
             THEN Append(lst, url)
             ELSE lst

\* the first rows, as many as the mask retains, instead of the retained rows
MaskedRows_Leading(vecs, keep_mask) ==
    SubSeq(vecs, 1, Cardinality({j \in 1..Len(vecs) : keep_mask[j]}))

\* line 174: embs[keep_mask]
MaskedRows(vecs, keep_mask) ==
    LET kept == SelectSeq([j \in 1..Len(vecs) |-> j], LAMBDA j : keep_mask[j])
    IN  [k \in 1..Len(kept) |-> vecs[kept[k]]]

\* the test with one direction of the mismatch forgotten
InputMismatch_MoreRowsOnly(vecs, its) == Len(vecs) > Len(its)

\* line 136: embs.shape[0] != len(items)
InputMismatch(vecs, its) == Len(vecs) # Len(its)

\* line 140: cosine_similarity validates its argument and refuses an array
\* without rows ("Found array with 0 sample(s) ... while a minimum of 1 is
\* required") with a ValueError
NoSamples(vecs) == Len(vecs) = 0

\* lines 136-176; on a mismatch the call ends with the ValueError of line 137,
\* on no rows at all with the ValueError out of line 140
dedup_semantic(vecs, its, thr, merge) ==
    IF InputMismatch(vecs, its) \/ NoSamples(vecs)
    THEN [error |-> ValueError, embs2 |-> <<>>, filtered_items |-> <<>>,
          keep_mask |-> <<>>, rep_for |-> <<>>]
    ELSE
    LET n == Len(vecs)
        st == SemanticScan(1, [keep_mask |-> [j \in 1..n |-> TRUE],
                               rep_for |-> [j \in 1..n |-> j]], vecs, thr)
        kept == SelectSeq([j \in 1..n |-> j], LAMBDA j : st.keep_mask[j])
        filtered(j) ==
            IF merge THEN [its[j] EXCEPT !.merged_urls = AttachUrls(n, j, st, its)]
            ELSE its[j]
    IN  [error |-> NoError,
         embs2 |-> MaskedRows(vecs, st.keep_mask),
         filtered_items |-> [k \in 1..Len(kept) |-> filtered(kept[k])],
         keep_mask |-> st.keep_mask,
         rep_for |-> st.rep_for]

----------------------------------------------------------------------------
(* Inputs of the dedup stages *)

Item(text, url, timestamp) ==
    [text |-> text, url |-> url, timestamp |-> timestamp, merged_urls |-> <<>>]

\* "e", "c", "r r" and "r  r": the fingerprints of e and c, and of c and r,
\* differ in one bit, those of e and r in two; the last two texts have one
\* canonical form
FpTexts ==
    { <<"e">>, <<"c">>, <<"r", " ", "r">>, <<"r", " ", " ", "r">> }

\* "" is the absent url, <<>> the absent timestamp.  The empty text stands for
\* "", None and the absent key alike: every read of an item's text is
\* x.get("text", "") followed by (text or ""), or it.get("text") or "".
FpItemPool ==
    {Item(t, u, <<>>) : t \in FpTexts, u \in {"", "u1"}}
        \cup {Item(t, "u2", <<1>>) : t \in FpTexts}
        \cup {Item(<<>>, "u1", <<>>), Item(<<"e">>, "u1", <<-1>>)}

MaxFpItems == 4

\* the last item already carries a merged_urls list
SemItemPool ==
    {Item(<<"a">>, u, <<>>) : u \in {"", "u1", "u2"}}
        \cup {[Item(<<"a">>, "u1", <<>>) EXCEPT !.merged_urls = <<"u2", "u1">>]}
EmbPool == { <<1, 0>>, <<0, 1>>, <<3, 4>> }
\* 3/5 and 4/5: the cosine of <<1, 0>> and <<3, 4>> is exactly 3/5, that of
\* <<0, 1>> and <<3, 4>> exactly 4/5
ThresholdPool == { <<3, 5>>, <<4, 5>> }

MaxSemItems == 3

DedupTexts == { <<"e">>, <<"r", " ", "r">>, <<"r", " ", " ", "r">> }
DedupItemPool == {Item(t, u, <<>>) : t \in DedupTexts, u \in {"", "u1", "u2"}}
DedupEmbPool == { <<1, 0>>, <<1, 1>>, <<0, 1>> }

MaxDedupItems == 3

\* a call of dedup_fingerprint on raw items
InitFingerprint ==
    /\ items \in SeqsUpTo(FpItemPool, MaxFpItems)
    /\ orig = items
    /\ embs = <<>>
    /\ threshold = <<0, 1>>
    /\ merge_sources = FALSE
    /\ fp_trace = <<>>
    /\ sem_trace = <<>>
    /\ pc = "fingerprint"
    /\ NoPack
    /\ NoFn

\* a call of dedup_semantic on items and embedding rows, the numbers of which
\* may differ
InitSemantic ==
    /\ items \in SeqsUpTo(SemItemPool, MaxSemItems)
    /\ orig = items
    /\ embs \in SeqsUpTo(EmbPool, MaxSemItems)
    /\ threshold \in ThresholdPool
    /\ merge_sources \in BOOLEAN
    /\ fp_trace = <<>>
    /\ sem_trace = <<>>
    /\ pc = "semantic"
    /\ NoPack
    /\ NoFn

\* the two stages in pipeline order
InitDedup ==
    /\ items \in SeqsUpTo(DedupItemPool, MaxDedupItems)
    /\ orig = items
    /\ embs = <<>>
    /\ threshold \in ThresholdPool
    /\ merge_sources = TRUE
    /\ fp_trace = <<>>
    /\ sem_trace = <<>>
    /\ pc = "fingerprint"
    /\ NoPack
    /\ NoFn

----------------------------------------------------------------------------
(* The dedup stages as steps *)

\* dedup_fingerprint(items, bits, bands, ham_thresh): the call returns the
\* retained items, or ends with an exception and returns nothing
RunFingerprint ==
    /\ pc = "fingerprint"
    /\ \E r \in {dedup_fingerprint(items, Bits, Bands, HamThresh)} :
           IF r.error = NoError
           THEN /\ items' = r.out
                /\ fp_trace' = [keep |-> r.keep, families |-> r.families]
                /\ pc' = "embed"
           ELSE /\ pc' = r.error
                /\ UNCHANGED <<items, fp_trace>>
    /\ UNCHANGED <<embs, orig, threshold, merge_sources, sem_trace>>
    /\ UNCHANGED <<clusters, token_budget, per_cluster_min, per_cluster_max,
                   remaining, topics, ci>>
    /\ UNCHANGED frameVars
    /\ UNCHANGED fnVars

\* the embedding provider: one vector per item, equal texts getting equal
\* vectors
Embed ==
    /\ pc = "embed"
    /\ \E e \in [{items[k].text : k \in 1..Len(items)} -> DedupEmbPool] :
           embs' = [k \in 1..Len(items) |-> e[items[k].text]]
    /\ pc' = "semantic"
    /\ UNCHANGED <<items, orig, threshold, merge_sources, fp_trace, sem_trace>>
    /\ UNCHANGED <<clusters, token_budget, per_cluster_min, per_cluster_max,
                   remaining, topics, ci>>
    /\ UNCHANGED frameVars
    /\ UNCHANGED fnVars

\* dedup_semantic(embs, items, threshold=..., merge_sources=...): the call
\* returns the filtered vectors and items, or ends with an exception
RunSemantic ==
    /\ pc = "semantic"
    /\ \E r \in {dedup_semantic(embs, items, threshold, merge_sources)} :
           IF r.error = NoError
           THEN /\ items' = r.filtered_items
                /\ embs' = r.embs2
                /\ sem_trace' = [keep_mask |-> r.keep_mask, rep_for |-> r.rep_for,
                                 items |-> items, embs |-> embs]
                /\ pc' = "deduped"
           ELSE /\ pc' = r.error
                /\ UNCHANGED <<items, embs, sem_trace>>
    /\ UNCHANGED <<orig, threshold, merge_sources, fp_trace>>
    /\ UNCHANGED <<clusters, token_budget, per_cluster_min, per_cluster_max,
                   remaining, topics, ci>>
    /\ UNCHANGED frameVars
    /\ UNCHANGED fnVars

NextFingerprint == RunFingerprint
SpecFingerprint == InitFingerprint /\ [][NextFingerprint]_vars

NextSemantic == RunSemantic
SpecSemantic == InitSemantic /\ [][NextSemantic]_vars

NextDedup ==
    \/ RunFingerprint
    \/ Embed
    \/ RunSemantic

SpecDedup == InitDedup /\ [][NextDedup]_vars

----------------------------------------------------------------------------
(* Properties of dedup_semantic *)

\* the arguments and the masks of the dedup_semantic call that has returned
SemN == Len(sem_trace.embs)
Retained(j) == sem_trace.keep_mask[j]
RepOf(j) == sem_trace.rep_for[j]

\* cosine of rows i and j of the call's embeddings >= threshold, stated for the
\* non-negative thresholds the runs use
Similar(i, j) ==
    LET u == sem_trace.embs[i]
        v == sem_trace.embs[j]
    IN  /\ Dot(u, u) * Dot(v, v) > 0
        /\ Dot(u, v) >= 0
        /\ threshold[2] * threshold[2] * Dot(u, v) * Dot(u, v)
               >= threshold[1] * threshold[1] * Dot(u, u) * Dot(v, v)

\* three rows A, B, C with A~B and B~C but not A~C
ChainOfThree ==
    /\ pc = "deduped"
    /\ SemN = 3
    /\ Similar(1, 2)
    /\ Similar(2, 3)
    /\ ~Similar(1, 3)

\* C3 as stated: for A, B, C with A~B, B~C and not A~C, both B and C are
\* removed with A as their representative, and only A survives.
C3_BothCollapseOntoA ==
    ChainOfThree =>
        /\ ~Retained(2) /\ ~Retained(3)
        /\ RepOf(2) = 1 /\ RepOf(3) = 1
        /\ Len(items) = 1

\* C3 (amended): for A, B, C with A~B, B~C and not A~C, only B is removed, with
\* A as its representative; C is compared with A alone, is retained as its own
\* representative, and A and C survive.
C3_OnlyBCollapsesOntoA ==
    ChainOfThree =>
        /\ Retained(1) /\ ~Retained(2) /\ Retained(3)
        /\ RepOf(2) = 1 /\ RepOf(3) = 3
        /\ Len(items) = 2
        /\ embs = <<sem_trace.embs[1], sem_trace.embs[3]>>

C3_Witness == ChainOfThree /\ Len(items) = 2

\* the retained earlier rows similar to row j
Anchors(j) == {i \in 1..(j - 1) : Retained(i) /\ Similar(i, j)}

\* C6: row j is removed iff some earlier retained row is similar to it
\* (similarity equal to the threshold counts), its representative is the
\* smallest such row, a retained row represents itself; so no two retained rows
\* are similar and every representative is retained.
C6_GreedyFirstOccurrence ==
    pc = "deduped" =>
        /\ \A j \in 1..SemN : ~Retained(j) <=> Anchors(j) # {}
        /\ \A j \in 1..SemN :
               IF Retained(j) THEN RepOf(j) = j
               ELSE RepOf(j) \in Anchors(j) /\ \A i \in Anchors(j) : RepOf(j) <= i
        /\ \A i, j \in 1..SemN : (i < j /\ Retained(i) /\ Retained(j)) => ~Similar(i, j)
        /\ \A j \in 1..SemN : Retained(RepOf(j))

\* a row with two retained similar rows before it was removed onto the first
\* of them, its cosine with that row being exactly the threshold
C6_Witness ==
    /\ pc = "deduped"
    /\ \E j \in 1..SemN :
           /\ ~Retained(j)
           /\ Cardinality(Anchors(j)) >= 2
           /\ LET u == sem_trace.embs[RepOf(j)]
                  v == sem_trace.embs[j]
              IN  threshold[2] * threshold[2] * Dot(u, v) * Dot(u, v)
                      = threshold[1] * threshold[1] * Dot(u, u) * Dot(v, v)

\* the urls a retained row j must carry: its own, then those of the rows it
\* represents in ascending order, absent urls left out, each url once
ExpectedMerged(j) ==
    LET its == sem_trace.items
        us == [k \in 1..SemN |->
                  IF k = j \/ (k > j /\ ~Retained(k) /\ RepOf(k) = j) THEN its[k].url ELSE ""]
        own == IF its[j].url # "" THEN <<its[j].url>> ELSE <<>>
    IN  Uniq(own \o SelectSeq(us, LAMBDA u : u # ""))

\* the position in the output of retained row j
NewIndex(j) == Cardinality({i \in 1..j : Retained(i)})

\* C7: with merge_sources, every retained item's merged_urls is its own url
\* followed by the urls of exactly the removed items it represents, in index
\* order and without duplicates, and every removed item's url is in its
\* representative's merged_urls.
C7_MergedUrls ==
    (pc = "deduped" /\ merge_sources) =>
        /\ \A j \in 1..SemN :
               Retained(j) => items[NewIndex(j)].merged_urls = ExpectedMerged(j)
        /\ \A j \in 1..SemN :
               (~Retained(j) /\ sem_trace.items[j].url # "") =>
                   \E k \in 1..Len(items[NewIndex(RepOf(j))].merged_urls) :
                       items[NewIndex(RepOf(j))].merged_urls[k] = sem_trace.items[j].url

\* a retained item took over a second url, and a removed one repeated a url
\* that was already there
C7_Witness ==
    /\ pc = "deduped"
    /\ merge_sources
    /\ \E k \in 1..Len(items) : Len(items[k].merged_urls) = 2
    /\ \E j \in 1..SemN :
           /\ ~Retained(j)
           /\ sem_trace.items[j].url # ""
           /\ \E i \in 1..(j - 1) :
                  (i = RepOf(j) \/ (~Retained(i) /\ RepOf(i) = RepOf(j)))
                      /\ sem_trace.items[i].url = sem_trace.items[j].url

\* C18: the two outputs of dedup_semantic stay paired: the filtered vectors and
\* the filtered items are the inputs at exactly the retained indices, in
\* original order; both have the same length and the k-th vector belongs to
\* the k-th item.
C18_OutputsPaired ==
    pc = "deduped" =>
        /\ Len(embs) = Len(items)
        /\ Len(items) = Cardinality({j \in 1..SemN : Retained(j)})
        /\ \A j \in 1..SemN :
               Retained(j) =>
                   /\ embs[NewIndex(j)] = sem_trace.embs[j]
                   /\ [items[NewIndex(j)] EXCEPT !.merged_urls = sem_trace.items[j].merged_urls]
                          = sem_trace.items[j]

\* the middle one of three rows was removed; the two retained rows differ in
\* vector and in url
C18_Witness ==
    /\ pc = "deduped"
    /\ SemN = 3
    /\ Retained(1) /\ ~Retained(2) /\ Retained(3)
    /\ Len(embs) = 2
    /\ embs[1] # embs[2]
    /\ sem_trace.embs[2] # sem_trace.embs[3]
    /\ items[1].url # items[2].url

\* C12: called with a number of embedding rows different from the number of
\* items, dedup_semantic fails with the input-mismatch error before doing any
\* work: no filtered vectors or items are returned, no row is compared or
\* removed, and the input items are unchanged.
C12_MismatchFailsFirst ==
    [][(pc = "semantic" /\ Len(embs) # Len(items)) =>
          /\ pc' = ValueError
          /\ items' = items
          /\ embs' = embs
          /\ sem_trace' = sem_trace]_vars

\* the call failed on two items given a single row, with merge_sources on
C12_Witness ==
    /\ pc = ValueError
    /\ Len(items) = 2
    /\ Len(embs) = 1
    /\ merge_sources

----------------------------------------------------------------------------
(* Properties of dedup_fingerprint *)

\* the original indices dedup_fingerprint kept
Kept == {fp_trace.keep[k] : k \in 1..Len(fp_trace.keep)}
Families == fp_trace.families
InFamily(i, f) == \E m \in 1..Len(Families[f].grp) : Families[f].grp[m] = i

\* C4: two items with identical canonicalized texts are in the same family in
\* every bucket, and at most one of them is in the output.
C4_IdenticalTextsCollapse ==
    pc = "embed" =>
        \A i, j \in 1..Len(orig) :
            (i < j /\ _canonicalize(orig[i].text) = _canonicalize(orig[j].text)) =>
                /\ \A f \in 1..Len(Families) : InFamily(i, f) <=> InFamily(j, f)
                /\ ~(i \in Kept /\ j \in Kept)

\* C5: of two items placed in the same family of some bucket at most one, the
\* family's representative, is in the output.
C5_FamilyCollapses ==
    pc = "embed" =>
        \A f \in 1..Len(Families) :
            \A i, j \in 1..Len(orig) :
                (i # j /\ InFamily(i, f) /\ InFamily(j, f)) => ~(i \in Kept /\ j \in Kept)

\* C13: the output of dedup_fingerprint is a subsequence of its input by
\* original index: the retained items appear in strictly increasing original
\* index order, each at most once, whatever the order in which buckets and
\* families were discovered; an output item is its input item, merged_urls
\* apart.
C13_OutputIsSubsequence ==
    pc = "embed" =>
        LET keep == fp_trace.keep
        IN  /\ Len(items) = Len(keep)
            /\ \A k \in 1..Len(keep) : keep[k] \in 1..Len(orig)
            /\ \A k \in 1..(Len(keep) - 1) : keep[k] < keep[k + 1]
            /\ \A k \in 1..Len(keep) :
                   [items[k] EXCEPT !.merged_urls = orig[keep[k]].merged_urls] = orig[keep[k]]

\* a later item was discovered as a representative before an earlier one, and
\* both were retained
C13_Witness ==
    /\ pc = "embed"
    /\ \E f, g \in 1..Len(Families) :
           /\ f < g
           /\ Families[f].rep > Families[g].rep
           /\ \A h \in 1..(f - 1) : Families[h].rep # Families[g].rep
    /\ Len(items) >= 3

\* the families item i represents, and the urls of their members in the order
\* the families were formed, members in bucket order
RepFamilies(i) == {f \in 1..Len(Families) : Families[f].rep = i}
MemberUrls(i) ==
    Concat([f \in 1..Len(Families) |->
               IF Families[f].rep = i
               THEN SelectSeq([m \in 1..Len(Families[f].grp) |-> orig[Families[f].grp[m]].url],
                              LAMBDA u : u # "")
               ELSE <<>>])
SeqSet(q) == {q[k] : k \in 1..Len(q)}

\* C14: each retained representative's merged_urls is the order-preserving,
\* duplicate-free union of the urls of all members of the families it
\* represents, its own url first; a representative of families of size 1 only
\* gets just its own url; items without a url contribute nothing, and a
\* representative whose families have no url at all gets no merged_urls set.
C14_FingerprintMergedUrls ==
    pc = "embed" =>
        \A k \in 1..Len(items) :
            LET i == fp_trace.keep[k]
                L == items[k].merged_urls
                own == orig[i].url
            IN  /\ SeqSet(L) = SeqSet(MemberUrls(i))
                /\ \A a, b \in 1..Len(L) : a # b => L[a] # L[b]
                /\ "" \notin SeqSet(L)
                /\ own # "" => (L # <<>> /\ L[1] = own)
                /\ L = Uniq((IF own # "" THEN <<own>> ELSE <<>>) \o MemberUrls(i))
                /\ (\A f \in RepFamilies(i) : Len(Families[f].grp) = 1) =>
                       L = (IF own # "" THEN <<own>> ELSE <<>>)
                /\ MemberUrls(i) = <<>> => L = orig[i].merged_urls

\* a representative took over the url of an earlier member of its family and
\* carries its own url in front of it; another retained item has no url at all
C14_Witness ==
    /\ pc = "embed"
    /\ \E k \in 1..Len(items) :
           /\ items[k].merged_urls = <<"u2", "u1">>
           /\ \E j \in 1..(fp_trace.keep[k] - 1) :
                  orig[j].url = "u1" /\ \E f \in RepFamilies(fp_trace.keep[k]) : InFamily(j, f)
    /\ \E k \in 1..Len(items) : items[k].merged_urls = <<>>

\* C11: dedup_fingerprint is total: for every list of items whose text is a
\* string, None or absent and whose timestamp is absent or any number, the
\* call returns a list and never raises.
C11_FingerprintNeverRaises ==
    [][pc = "fingerprint" => (pc' = "embed" /\ Len(items') <= Len(items))]_vars

----------------------------------------------------------------------------
(* Properties of the two stages in sequence *)

\* C8: after dedup_fingerprint and dedup_semantic (merge_sources on) every url
\* of every original item is in the merged_urls of some surviving item.
C8_NoUrlLost ==
    (pc = "deduped" /\ merge_sources) =>
        \A i \in 1..Len(orig) :
            orig[i].url # "" =>
                \E k \in 1..Len(items) :
                    \E m \in 1..Len(items[k].merged_urls) : items[k].merged_urls[m] = orig[i].url

----------------------------------------------------------------------------
(* rerank.py *)

\* Vectors have integer components and the candidates' norms are integers, so
\* that every cosine between candidates is a multiple of 1/SimScale and every
\* comparison of scores can be made exactly.
NormScale == 5
SimScale == NormScale * NormScale

\* the Euclidean norm of a candidate row
Norm(v) == CHOOSE r \in 0..NormScale : r * r = Dot(v, v)

\* cosine_similarity(cand_embs)[i, j] times SimScale; a zero row has cosine 0
SimMat(u, v) ==
    IF Norm(u) = 0 \/ Norm(v) = 0 THEN 0
    ELSE (SimScale * Dot(u, v)) \div (Norm(u) * Norm(v))

RECURSIVE RowSum(_)
RowSum(rows) ==
    IF Len(rows) = 1 THEN Head(rows)
    ELSE LET rest == RowSum(Tail(rows))
         IN  [d \in 1..Len(Head(rows)) |-> Head(rows)[d] + rest[d]]

\* lines 34-37: the query, or the mean of the candidates when there is none.
\* The mean is taken as the sum of the rows: the factor 1/n does not change a
\* cosine.
QueryOf(rows, qv) == IF qv = <<>> THEN RowSum(rows) ELSE qv[1]

\* line 38: sim_q[i] is SimQ(c, q) / (NormScale * sqrt(Dot(q, q))), and 0 when
\* the candidate or the query is zero
SimQ(c, q) ==
    IF Norm(c) = 0 \/ Dot(q, q) = 0 THEN 0
    ELSE (NormScale * Dot(c, q)) \div Norm(c)

\* the exact sign test of x > y * sqrt(nn) for integers x, y and nn >= 1
GreaterThanRoot(x, y, nn) ==
    IF y >= 0 THEN x > 0 /\ x * x > y * y * nn
    ELSE x >= 0 \/ x * x < y * y * nn

\* the similarity to the candidate selected last, in place of the highest
Div_LastSelected(rows, i, selected) ==
    SimMat(rows[i], rows[selected[Len(selected)]])

\* line 55: max(sim_mat[i, s] for s in selected), times SimScale
Div(rows, i, selected) ==
    LET sims == {SimMat(rows[i], rows[selected[k]]) : k \in 1..Len(selected)}
    IN  CHOOSE x \in sims : \A y \in sims : y <= x

\* the comparison made with >= : a later candidate of equal score wins
ScoreGreater_OrEqual(rows, q, lam, selected, i, j) ==
    LET qq == IF Dot(q, q) = 0 THEN 1 ELSE Dot(q, q)
        x == NormScale * lam[1] * (SimQ(rows[i], q) - SimQ(rows[j], q))
        y == (lam[2] - lam[1]) * (Div(rows, i, selected) - Div(rows, j, selected))
    IN  ~GreaterThanRoot(-x, -y, qq)

\* lines 56-57: the score of i is greater than the score of j, the scores being
\* lam * sim_q - (1 - lam) * div with lam = lam[1] / lam[2]
ScoreGreater(rows, q, lam, selected, i, j) ==
    LET qq == IF Dot(q, q) = 0 THEN 1 ELSE Dot(q, q)
        x == NormScale * lam[1] * (SimQ(rows[i], q) - SimQ(rows[j], q))
        y == (lam[2] - lam[1]) * (Div(rows, i, selected) - Div(rows, j, selected))
    IN  GreaterThanRoot(x, y, qq)

RECURSIVE BestOf(_, _, _, _, _, _)
\* lines 50-59: the scan of list(remaining), held in rem in iteration order;
\* best_i = 0 is None, whose score -1e9 every candidate beats
BestOf(rows, q, lam, selected, rem, best_i) ==
    IF rem = <<>> THEN best_i
    ELSE LET i == Head(rem)
             better == best_i = 0 \/ ScoreGreater(rows, q, lam, selected, i, best_i)
         IN  BestOf(rows, q, lam, selected, Tail(rem), IF better THEN i ELSE best_i)

\* line 45: int(np.argmax(sim_q)), the first index of the highest similarity
ArgMaxSimQ(rows, q) ==
    CHOOSE i \in 1..Len(rows) :
        /\ \A j \in 1..Len(rows) : SimQ(rows[j], q) <= SimQ(rows[i], q)
        /\ \A j \in 1..(i - 1) : SimQ(rows[j], q) < SimQ(rows[i], q)

RECURSIVE MmrLoop(_, _, _, _, _, _)
\* lines 49-62; a set of small integers is iterated in ascending order
MmrLoop(rows, q, lam, k, selected, rem) ==
    IF rem = {} \/ Len(selected) >= k THEN selected \o SortedSeq(rem)
    ELSE LET best_i == BestOf(rows, q, lam, selected, SortedSeq(rem), 0)
         IN  MmrLoop(rows, q, lam, k, Append(selected, best_i), rem \ {best_i})

\* the selection with the first pick left among the remaining candidates
MmrPositions_FirstStaysRemaining(rows, qv, lam, tk) ==
    LET n == Len(rows)
        k == IF tk = <<>> THEN n ELSE tk[1]
        q == QueryOf(rows, qv)
        first == ArgMaxSimQ(rows, q)
    IN  IF n = 0 THEN <<>>
        ELSE MmrLoop(rows, q, lam, k, <<first>>, 1..n)

\* _mmr_select(cand_embs, query_vec=qv, lam=lam, topk=tk), positions counted
\* from 1
MmrPositions(rows, qv, lam, tk) ==
    LET n == Len(rows)
        k == IF tk = <<>> THEN n ELSE tk[1]
        q == QueryOf(rows, qv)
        first == ArgMaxSimQ(rows, q)
    IN  IF n = 0 THEN <<>>
        ELSE MmrLoop(rows, q, lam, k, <<first>>, (1..n) \ {first})

\* the indices of the code count from 0
ZeroBased(positions) == [k \in 1..Len(positions) |-> positions[k] - 1]

_mmr_select(rows, qv, lam, tk) == ZeroBased(MmrPositions(rows, qv, lam, tk))

\* lines 14-19: np.argsort(-scores), every order of the positions in which
\* the scores do not increase (argsort does not promise to keep equal scores
\* in place)
_rerank_ce(scores) ==
    LET n == Len(scores)
    IN  {p \in [1..n -> 1..n] :
            /\ \A a, b \in 1..n : a # b => p[a] # p[b]
            /\ \A a \in 1..(n - 1) : scores[p[a]] >= scores[p[a + 1]]}

Strategies == {"none", "ce", "mmr", "ce+mmr"}

\* the test that lets every model name pass
MissingModel_Never(model) == FALSE

\* lines 79 and 89: not model_name
MissingModel(model) == model = ""

\* lines 84 and 92: cand_embs is None
MissingEmbeddings(embs_opt) == embs_opt = <<>>

\* rerank_candidates, given the order ce the cross-encoder call produces if it
\* is made (positions counted from 1)
rerank_candidates(texts, strat, model, embs_opt, qv, lam, ce) ==
    LET n == Len(texts)
        raised == [error |-> ValueError, order |-> <<>>, ce_order |-> <<>>]
        returned(o, c) == [error |-> NoError, order |-> o, ce_order |-> c]
    IN  IF strat = "none" THEN returned([k \in 1..n |-> k - 1], <<>>)
        ELSE IF strat = "ce"
        THEN IF MissingModel(model) THEN raised
             ELSE returned(ZeroBased(ce), ZeroBased(ce))
        ELSE IF strat = "mmr"
        THEN IF MissingEmbeddings(embs_opt) THEN raised
             ELSE returned(_mmr_select(embs_opt[1], qv, lam, <<n>>), <<>>)
        ELSE IF strat = "ce+mmr"
        THEN IF MissingModel(model) THEN raised
             ELSE IF MissingEmbeddings(embs_opt)
             THEN returned(ZeroBased(ce), ZeroBased(ce))
             ELSE LET embs_ordered == [k \in 1..Len(ce) |-> embs_opt[1][ce[k]]]
                      mmr_order_local == MmrPositions(embs_ordered, qv, lam, <<n>>)
                  IN  returned(ZeroBased([k \in 1..Len(mmr_order_local) |->
                                             ce[mmr_order_local[k]]]),
                               ZeroBased(ce))
        ELSE raised

----------------------------------------------------------------------------
(* Inputs of the rerank functions *)

MaxCands == 3
\* the candidates of a call of _mmr_select on its own: with four, the loop
\* chooses between two candidates after two are selected
MaxMmrCands == 4

\* rows of norm 1 and NormScale, and the zero row
CandPool == { <<1, 0>>, <<0, 1>>, <<3, 4>>, <<0, 0>> }
QueryPool == { <<1, 0>>, <<4, 3>>, <<-1, 0>> }
\* the smaller pools of the rerank_candidates calls
RerankCandPool == { <<1, 0>>, <<0, 1>>, <<3, 4>> }
RerankQueryPool == { <<4, 3>> }
\* 1, the default 0.4, and 0
LambdaPool == { <<1, 1>>, <<2, 5>>, <<0, 1>> }
ScorePool == {0, 1}
StrategyPool == Strategies \cup {"CE"}
ModelPool == {"", "m"}

Texts(n) == [k \in 1..n |-> "c"]

\* a call of _mmr_select on its own
InitMmr ==
    /\ cand_embs \in {<<rows>> : rows \in SeqsUpTo(CandPool, MaxMmrCands)}
    /\ query_vec \in {<<>>} \cup {<<q>> : q \in QueryPool}
    /\ mmr_lambda \in LambdaPool
    /\ topk \in {<<>>} \cup {<<k>> : k \in 0..MaxMmrCands}
    /\ strategy = "mmr"
    /\ model_name = ""
    /\ candidate_texts = <<>>
    /\ ce_scores = <<>>
    /\ ce_order = <<>>
    /\ order = <<>>
    /\ pc = "mmr_select"
    /\ NoPack
    /\ NoDedup
    /\ NoTok
    /\ NoStage

\* _mmr_select(cand_embs, query_vec=..., lam=..., topk=...)
MmrSelect ==
    /\ pc = "mmr_select"
    /\ order' = _mmr_select(cand_embs[1], query_vec, mmr_lambda, topk)
    /\ pc' = "selected"
    /\ UNCHANGED <<strategy, model_name, candidate_texts, cand_embs, query_vec,
                   mmr_lambda, topk, ce_scores, ce_order>>
    /\ UNCHANGED <<clusters, token_budget, per_cluster_min, per_cluster_max,
                   remaining, topics, ci>>
    /\ UNCHANGED frameVars
    /\ UNCHANGED dedupVars
    /\ UNCHANGED tokVars
    /\ UNCHANGED stageVars

NextMmr == MmrSelect
SpecMmr == InitMmr /\ [][NextMmr]_vars

\* a call of rerank_candidates: n candidate texts, one cross-encoder score and,
\* if embeddings are given, one row for each
InitRerank ==
    /\ candidate_texts \in {Texts(n) : n \in 0..MaxCands}
    /\ strategy \in StrategyPool
    /\ model_name \in ModelPool
    /\ cand_embs \in {<<>>} \cup
           {<<rows>> : rows \in {r \in SeqsUpTo(RerankCandPool, MaxCands) :
                                    Len(r) = Len(candidate_texts)}}
    /\ query_vec \in {<<>>} \cup {<<q>> : q \in RerankQueryPool}
    /\ mmr_lambda \in LambdaPool
    /\ topk = <<>>
    /\ ce_scores \in [1..Len(candidate_texts) -> ScorePool]
    /\ ce_order = <<>>
    /\ order = <<>>
    /\ pc = "rerank"
    /\ NoPack
    /\ NoDedup
    /\ NoTok
    /\ NoStage

\* rerank_candidates(query_text=..., candidate_texts=..., strategy=..., ...):
\* the call returns an order or ends with an exception
RerankCandidates ==
    /\ pc = "rerank"
    /\ \E ce \in _rerank_ce(ce_scores) :
       \E r \in {rerank_candidates(candidate_texts, strategy, model_name, cand_embs,
                                   query_vec, mmr_lambda, ce)} :
           IF r.error = NoError
           THEN /\ order' = r.order
                /\ ce_order' = r.ce_order
                /\ pc' = "reranked"
           ELSE /\ pc' = r.error
                /\ UNCHANGED <<order, ce_order>>
    /\ UNCHANGED <<strategy, model_name, candidate_texts, cand_embs, query_vec,
                   mmr_lambda, topk, ce_scores>>
    /\ UNCHANGED <<clusters, token_budget, per_cluster_min, per_cluster_max,
                   remaining, topics, ci>>
    /\ UNCHANGED frameVars
    /\ UNCHANGED dedupVars
    /\ UNCHANGED tokVars
    /\ UNCHANGED stageVars

NextRerank == RerankCandidates
SpecRerank == InitRerank /\ [][NextRerank]_vars

----------------------------------------------------------------------------
(* Properties of rerank_candidates and _mmr_select *)

\* the cases in which rerank_candidates is said to fail
ConfigErrorCase ==
    \/ strategy \notin {"none", "ce", "mmr", "ce+mmr"}
    \/ strategy \in {"ce", "ce+mmr"} /\ model_name = ""
    \/ strategy = "mmr" /\ cand_embs = <<>>

\* o holds every index 0..n-1 once, in an order in which the cross-encoder
\* scores do not increase
PureRelevanceOrder(o) ==
    /\ Len(o) = Len(candidate_texts)
    /\ \A a \in 1..Len(o) : o[a] \in 0..(Len(candidate_texts) - 1)
    /\ \A a, b \in 1..Len(o) : a # b => o[a] # o[b]
    /\ \A a \in 1..(Len(o) - 1) : ce_scores[o[a] + 1] >= ce_scores[o[a + 1] + 1]

\* C19: rerank_candidates fails with a configuration error exactly when the
\* strategy is not one of none, ce, mmr, ce+mmr, or it is ce or ce+mmr and no
\* model identifier is given, or it is mmr and no candidate embeddings are
\* given; with the combined strategy and missing embeddings it does not fail
\* and returns exactly the cross-encoder ordering.
C19_ConfigErrors ==
    [][pc = "rerank" =>
          /\ ConfigErrorCase => (pc' = ValueError /\ order' = order)
          /\ ~ConfigErrorCase => pc' = "reranked"
          /\ (strategy = "ce+mmr" /\ model_name # "" /\ cand_embs = <<>>) =>
                 /\ pc' = "reranked"
                 /\ order' = ce_order'
                 /\ PureRelevanceOrder(order')]_vars

\* the combined strategy returned, without embeddings, a cross-encoder order
\* that moves the first candidate back
C19_Witness ==
    /\ pc = "reranked"
    /\ strategy = "ce+mmr"
    /\ cand_embs = <<>>
    /\ Len(order) = MaxCands
    /\ order[1] # 0
    /\ order = ce_order

\* the arguments of the _mmr_select call
MmrRows == cand_embs[1]
MmrN == Len(MmrRows)
\* the similarity to the query of the candidate with index i (counted from 0)
Relevance(i) == SimQ(MmrRows[i + 1], QueryOf(MmrRows, query_vec))
\* i comes before j in descending similarity to the query, equal similarities
\* in ascending index order
MoreRelevant(i, j) ==
    Relevance(i) > Relevance(j) \/ (Relevance(i) = Relevance(j) /\ i < j)

IsPermutation(o, n) ==
    /\ Len(o) = n
    /\ \A a \in 1..n : o[a] \in 0..(n - 1)
    /\ \A a, b \in 1..n : a # b => o[a] # o[b]

LambdaIsOne == mmr_lambda[1] = mmr_lambda[2]

\* C20 as stated: with lambda = 1 the ordering returned by _mmr_select is the
\* candidates sorted by descending similarity to the query, equal similarities
\* in ascending index order, whatever the similarities between candidates.
C20_SortedByRelevance ==
    (pc = "selected" /\ LambdaIsOne) =>
        /\ IsPermutation(order, MmrN)
        /\ \A a, b \in 1..MmrN : a < b => MoreRelevant(order[a], order[b])

\* the number of entries the selection loop places: all of them without topk,
\* else topk of them, but one at least
Placed == IF topk = <<>> THEN MmrN ELSE Min(MmrN, Max(1, topk[1]))

\* C20 (amended): with lambda = 1 the first max(1, topk) entries of the
\* ordering are the candidates most similar to the query, by descending
\* similarity, equal similarities in ascending index order; the entries after
\* them are the other candidates in ascending index order.  Without topk, or
\* with topk >= n, the whole ordering is sorted by descending similarity.
C20_SortedUpToTopk ==
    (pc = "selected" /\ LambdaIsOne) =>
        /\ IsPermutation(order, MmrN)
        /\ \A a, b \in 1..MmrN :
               (a < b /\ a <= Placed) => MoreRelevant(order[a], order[b])
        /\ \A a, b \in 1..MmrN :
               (a < b /\ a > Placed) => order[a] < order[b]

\* a call with topk = 1 returned the most similar candidate first and, behind
\* it, a less similar candidate before a more similar one
C20_Witness ==
    /\ pc = "selected"
    /\ LambdaIsOne
    /\ topk = <<1>>
    /\ MmrN = MaxCands
    /\ \E a \in 2..(MmrN - 1) : Relevance(order[a]) < Relevance(order[a + 1])
    /\ \E i, j \in 0..(MmrN - 1) : i # j /\ Relevance(i) = Relevance(j)

----------------------------------------------------------------------------
(* clustering.py *)

\* the sentinel of the density-based clustering for a point in no cluster
Noise == -1

\* the largest cluster label the clustering library is let to use
MaxLabel == 1

\* _cluster_hdbscan, lines 15-17: fit_predict is the library's.  For n rows it
\* returns one label per row, -1 for noise and 0..m-1 for the m clusters it
\* found, no cluster having fewer than min_cluster_size members; which of these
\* labellings it returns is left open.
_cluster_hdbscan(rows, mcs) ==
    {lb \in [1..Len(rows) -> Noise..MaxLabel] :
        \A c \in 0..MaxLabel :
            (\E i \in 1..Len(rows) : lb[i] = c) =>
                /\ Cardinality({i \in 1..Len(rows) : lb[i] = c}) >= mcs
                /\ c > 0 => \E i \in 1..Len(rows) : lb[i] = c - 1}

\* lines 54-55: KMeans(n_clusters).fit_predict is the library's; every row gets
\* one of the labels 0..n_clusters-1, and fewer rows than clusters is refused
KMeansLabels(rows, n_clusters) == [1..Len(rows) -> 0..(n_clusters - 1)]

\* the exact test of a / sqrt(aa) > b / sqrt(bb) for integers, aa, bb >= 1
RatioGreater(a, aa, b, bb) ==
    IF a >= 0
    THEN IF b >= 0 THEN a * a * bb > b * b * aa ELSE TRUE
    ELSE IF b >= 0 THEN FALSE ELSE a * a * bb < b * b * aa

\* line 35: whether cosine_similarity(x, c1) > cosine_similarity(x, c2); the
\* norm of x is common to both sides, and a zero vector has cosine 0
CosGreater(x, c1, c2) ==
    LET num(c) == IF Dot(c, c) = 0 THEN 0 ELSE Dot(x, c)
        den(c) == IF Dot(c, c) = 0 THEN 1 ELSE Dot(c, c)
    IN  RatioGreater(num(c1), den(c1), num(c2), den(c2))

\* lines 35-36, argmax along the row of x: a column holding the maximum.
\* Between centroids whose cosines are equal as real numbers the rounding of
\* the floating-point cosines decides, so every such column is possible.
MaxColumns(x, centroids) ==
    {c \in 1..Len(centroids) :
        \A d \in 1..Len(centroids) : ~CosGreater(x, centroids[d], centroids[c])}

\* lines 26-29: the centroid of the rows labelled lb.  The mean is taken as
\* the sum of the rows: the factor 1/n does not change a cosine.
Centroid(rows, lbs, lb) ==
    LET idxs == SortedSeq({i \in 1..Len(rows) : lbs[i] = lb})
    IN  RowSum([k \in 1..Len(idxs) |-> rows[idxs[k]]])

\* the mapping when a noise point is left as it is
Mapped_KeepNoise(x, centroids, uniq) == {Noise}

\* the mapping when every noise point goes to the first cluster
Mapped_FirstCluster(x, centroids, uniq) == {uniq[1]}

\* lines 36-37: the labels the row x can get, those of the centroids most
\* similar to it
Mapped(x, centroids, uniq) == {uniq[c] : c \in MaxColumns(x, centroids)}

\* line 22: not np.any(labels >= 0)
NoClusterFound(lbs) == ~\E i \in 1..Len(lbs) : lbs[i] >= 0

\* lines 20-40: the label arrays the call can return
_attach_noise(rows, lbs) ==
    IF NoClusterFound(lbs) THEN {lbs}
    ELSE LET uniq == SortedSeq({lbs[i] : i \in {j \in 1..Len(lbs) : lbs[j] >= 0}})
             centroids == [c \in 1..Len(uniq) |-> Centroid(rows, lbs, uniq[c])]
             noise == {i \in 1..Len(lbs) : lbs[i] = Noise}
             mapped == [i \in 1..Len(lbs) |->
                           IF i \in noise THEN Mapped(rows[i], centroids, uniq)
                           ELSE {lbs[i]}]
         IN  IF noise = {} THEN {lbs}
             ELSE {labels2 \in [1..Len(lbs) -> Noise..MaxLabel] :
                      \A i \in 1..Len(lbs) : labels2[i] \in mapped[i]}

\* line 54: max(2, int(k))
NClusters(k) == Max(2, k)

\* what the library of the chosen strategy can predict for the rows
LibraryLabels(rows, alg, mcs, k) ==
    IF alg = "kmeans" THEN KMeansLabels(rows, NClusters(k))
    ELSE _cluster_hdbscan(rows, mcs)

\* lines 43-72: the outcomes of the call; raw is what the library predicted
cluster(rows, alg, mcs, k, attach, raw) ==
    IF Len(rows) = 0 THEN {[error |-> NoError, labels |-> <<>>]}
    ELSE IF alg = "kmeans"
    THEN IF Len(rows) < NClusters(k)
         THEN {[error |-> ValueError, labels |-> <<>>]}
         ELSE {[error |-> NoError, labels |-> raw]}
    ELSE {[error |-> NoError, labels |-> lbs] :
             lbs \in IF attach THEN _attach_noise(rows, raw) ELSE {raw}}

----------------------------------------------------------------------------
(* a call of cluster *)

MaxPoints == 4

ClusterEmbPool == {<<1, 0>>, <<0, 1>>, <<-1, 0>>, <<1, 1>>}

\* six rows: two pairs of equal rows, a row nearer the second pair and a row
\* halfway between the pairs
SixPoints == <<<<1, 0>>, <<1, 0>>, <<0, 1>>, <<0, 1>>, <<3, 4>>, <<1, 1>>>>

ClusterEmbLists == SeqsUpTo(ClusterEmbPool, MaxPoints) \cup {SixPoints}

\* the keyword arguments of the calls: the strategy with the argument it
\* reads, the other left at its default
ClusterCalls ==
    {[algo |-> "kmeans", min_cluster_size |-> 3, k |-> kk] : kk \in {1, 3}}
        \cup {[algo |-> "hdbscan", min_cluster_size |-> m, k |-> 20] : m \in {2, 3}}

InitCluster ==
    /\ cluster_embs \in ClusterEmbLists
    /\ \E call \in ClusterCalls :
        /\ algo = call.algo
        /\ min_cluster_size = call.min_cluster_size
        /\ cluster_k = call.k
    /\ attach_noise \in BOOLEAN
    /\ raw_labels = <<>>
    /\ labels = <<>>
    /\ pc = "cluster"
    /\ NoPack
    /\ NoDedup
    /\ NoTok
    /\ NoRerank
    /\ NoCanon
    /\ NoBuckets
    /\ NoRun

\* cluster(embs, algo=..., min_cluster_size=..., k=..., attach_noise=...)
RunCluster ==
    /\ pc = "cluster"
    /\ \E raw \in LibraryLabels(cluster_embs, algo, min_cluster_size, cluster_k) :
        \E r \in cluster(cluster_embs, algo, min_cluster_size, cluster_k,
                         attach_noise, raw) :
            IF r.error = NoError
            THEN /\ raw_labels' = raw
                 /\ labels' = r.labels
                 /\ pc' = "clustered"
            ELSE /\ pc' = r.error
                 /\ UNCHANGED <<raw_labels, labels>>
    /\ UNCHANGED <<cluster_embs, algo, min_cluster_size, cluster_k, attach_noise>>
    /\ UNCHANGED <<clusters, token_budget, per_cluster_min, per_cluster_max,
                   remaining, topics, ci>>
    /\ UNCHANGED frameVars
    /\ UNCHANGED dedupVars
    /\ UNCHANGED tokVars
    /\ UNCHANGED rerankVars
    /\ UNCHANGED canonVars
    /\ UNCHANGED bucketVars
    /\ UNCHANGED runVars

NextCluster == RunCluster
SpecCluster == InitCluster /\ [][NextCluster]_vars

----------------------------------------------------------------------------
(* Properties of cluster *)

ClusterN == Len(cluster_embs)
HasNoise(lbs) == \E i \in 1..Len(lbs) : lbs[i] = Noise

\* C21 (as stated): the label -1 is returned only by the density-based
\* strategy with attach_noise disabled; with attach_noise enabled, or with
\* kmeans, no returned label is -1
C21_NoiseOnlyWithoutAttachment ==
    (pc = "clustered" /\ HasNoise(labels)) =>
        (algo # "kmeans" /\ ~attach_noise)

\* C21 (amended): the label -1 is returned only by the density-based strategy,
\* and with attach_noise enabled only when the library found no cluster at
\* all, in which case every returned label is -1; kmeans never returns -1
C21_NoiseOnlyWithoutAttachmentOrCluster ==
    (pc = "clustered" /\ HasNoise(labels)) =>
        /\ algo # "kmeans"
        /\ attach_noise =>
            /\ NoClusterFound(raw_labels)
            /\ \A i \in 1..ClusterN : labels[i] = Noise

\* attachment is enabled and the library found no cluster among several
\* points: every label returned is -1
C21_Witness ==
    /\ pc = "clustered"
    /\ algo = "hdbscan"
    /\ attach_noise
    /\ ClusterN >= 2
    /\ HasNoise(labels)

\* the labels of the clusters the library found
RawClusters == {raw_labels[i] : i \in {j \in 1..ClusterN : raw_labels[j] >= 0}}

\* the centroid of an original cluster
RawCentroid(c) == Centroid(cluster_embs, raw_labels, c)

\* C26: noise attachment relabels only noise points: a point the library
\* labelled -1 gets the label of an original cluster such that no other
\* original cluster's centroid (of its members before attachment) is more
\* similar to the point; a point with a label >= 0 keeps it, no label outside
\* the original ones appears, and without any cluster the labels are returned
\* unchanged
C26_AttachRelabelsOnlyNoise ==
    (pc = "clustered" /\ algo # "kmeans" /\ attach_noise) =>
        /\ \A i \in 1..ClusterN : raw_labels[i] >= 0 => labels[i] = raw_labels[i]
        /\ NoClusterFound(raw_labels) => labels = raw_labels
        /\ ~NoClusterFound(raw_labels) =>
            \A i \in 1..ClusterN :
                raw_labels[i] = Noise =>
                    /\ labels[i] \in RawClusters
                    /\ \A c \in RawClusters :
                        ~CosGreater(cluster_embs[i], RawCentroid(c),
                                    RawCentroid(labels[i]))

\* two noise points are attached to two original clusters, the earlier one to
\* the later cluster; with the earlier point counted into that cluster's
\* centroid, the later point would be strictly nearer to it than to the
\* cluster it was given
C26_Witness ==
    /\ pc = "clustered"
    /\ algo # "kmeans"
    /\ attach_noise
    /\ \E i, j \in 1..ClusterN :
        /\ i < j
        /\ raw_labels[i] = Noise
        /\ raw_labels[j] = Noise
        /\ labels[i] > labels[j]
        /\ CosGreater(cluster_embs[i], RawCentroid(labels[i]), RawCentroid(labels[j]))
        /\ LET attached == [raw_labels EXCEPT ![i] = labels[i]]
           IN  CosGreater(cluster_embs[j],
                          Centroid(cluster_embs, attached, labels[i]),
                          Centroid(cluster_embs, attached, labels[j]))

----------------------------------------------------------------------------
(* Every stage called on its own *)

InitStages ==
    \/ InitFingerprint
    \/ InitSemantic
    \/ InitCluster
    \/ InitRerank
    \/ InitPack

NextStages ==
    \/ NextFingerprint
    \/ NextSemantic
    \/ NextCluster
    \/ NextRerank
    \/ NextPack

SpecStages == InitStages /\ [][NextStages]_vars

\* a call of rerank_candidates without candidates, with a strategy that has
\* what it requires
RerankOfNothing ==
    /\ pc = "rerank"
    /\ candidate_texts = <<>>
    /\ ~ConfigErrorCase

\* C22: empty input yields empty output without error in every stage:
\* dedup_fingerprint of no items returns no items, dedup_semantic of zero
\* vectors and zero items returns zero of each, cluster of zero vectors returns
\* zero labels, rerank_candidates of zero candidates returns an empty order,
\* and pack of zero clusters returns no topics
C22_EmptyInputEmptyOutput ==
    [][/\ (pc = "fingerprint" /\ items = <<>>) =>
            (pc' = "embed" /\ items' = <<>>)
       /\ (pc = "semantic" /\ items = <<>> /\ embs = <<>>) =>
            (pc' = "deduped" /\ items' = <<>> /\ embs' = <<>>)
       /\ (pc = "cluster" /\ cluster_embs = <<>>) =>
            (pc' = "clustered" /\ labels' = <<>>)
       /\ RerankOfNothing =>
            (pc' = "reranked" /\ order' = <<>>)
       /\ (pc = "pack" /\ clusters = <<>>) =>
            (pc' = "done" /\ topics' = <<>>)]_vars

----------------------------------------------------------------------------
(* a call of _canonicalize, and a second one on what it returned *)

MaxCanonLen == 4

CurlyQuotes ==
    {"LEFT DOUBLE QUOTE", "RIGHT DOUBLE QUOTE", "LEFT SINGLE QUOTE", "RIGHT SINGLE QUOTE"}

CanonChars ==
    {"a", " ", "\t", "NO-BREAK SPACE", "DIAERESIS", "COMBINING DIAERESIS",
     "LEFT DOUBLE QUOTE", "RIGHT SINGLE QUOTE"}

CanonTexts == SeqsUpTo(CanonChars, MaxCanonLen)

\* line 20: text or ""
OrEmpty(opt) == IF opt = <<>> THEN <<>> ELSE opt[1]

InitCanon ==
    /\ canon_in \in {<<>>} \cup {<<t>> : t \in CanonTexts}
    /\ canon_out = <<>>
    /\ canon_again = <<>>
    /\ pc = "canonicalize"
    /\ NoPack
    /\ NoDedup
    /\ NoTok
    /\ NoRerank
    /\ NoCluster
    /\ NoBuckets
    /\ NoRun

\* y = _canonicalize(x)
Canonicalize ==
    /\ pc = "canonicalize"
    /\ canon_out' = _canonicalize(OrEmpty(canon_in))
    /\ pc' = "canonical"
    /\ UNCHANGED <<canon_in, canon_again>>
    /\ UNCHANGED <<clusters, token_budget, per_cluster_min, per_cluster_max,
                   remaining, topics, ci>>
    /\ UNCHANGED frameVars
    /\ UNCHANGED dedupVars
    /\ UNCHANGED tokVars
    /\ UNCHANGED rerankVars
    /\ UNCHANGED clusterVars
    /\ UNCHANGED bucketVars
    /\ UNCHANGED runVars

\* _canonicalize(y)
CanonicalizeAgain ==
    /\ pc = "canonical"
    /\ canon_again' = _canonicalize(canon_out)
    /\ pc' = "canonical_twice"
    /\ UNCHANGED <<canon_in, canon_out>>
    /\ UNCHANGED <<clusters, token_budget, per_cluster_min, per_cluster_max,
                   remaining, topics, ci>>
    /\ UNCHANGED frameVars
    /\ UNCHANGED dedupVars
    /\ UNCHANGED tokVars
    /\ UNCHANGED rerankVars
    /\ UNCHANGED clusterVars
    /\ UNCHANGED bucketVars
    /\ UNCHANGED runVars

NextCanon ==
    \/ Canonicalize
    \/ CanonicalizeAgain

SpecCanon == InitCanon /\ [][NextCanon]_vars

----------------------------------------------------------------------------
(* Properties of _canonicalize *)

IsWhite(c) == c \in WhiteChars

\* C24: canonicalization is idempotent and total: canonicalizing a canonical
\* text returns it unchanged, None and the empty text give the empty text, and
\* a canonical text has no whitespace at either end, no two whitespace
\* characters in a row and no curly quote
C24_CanonicalizeIdempotent ==
    /\ pc \in {"canonical", "canonical_twice"} =>
        /\ OrEmpty(canon_in) = <<>> => canon_out = <<>>
        /\ canon_out # <<>> => ~IsWhite(Head(canon_out)) /\ ~IsWhite(Last(canon_out))
        /\ \A k \in 1..(Len(canon_out) - 1) :
               ~(IsWhite(canon_out[k]) /\ IsWhite(canon_out[k + 1]))
        /\ \A k \in 1..Len(canon_out) : canon_out[k] \notin CurlyQuotes
    /\ pc = "canonical_twice" => canon_again = canon_out

\* a text that starts with a character the normalization turns into a space
\* and a mark, and that holds a curly quote and a run of whitespace, was
\* canonicalized twice
C24_Witness ==
    /\ pc = "canonical_twice"
    /\ canon_in # <<>>
    /\ canon_in[1] # <<>>
    /\ Head(canon_in[1]) = "DIAERESIS"
    /\ \E k \in 1..Len(canon_in[1]) : canon_in[1][k] \in CurlyQuotes
    /\ \E k \in 1..(Len(canon_in[1]) - 1) :
           IsWhite(canon_in[1][k]) /\ IsWhite(canon_in[1][k + 1])
    /\ canon_out # <<>>

----------------------------------------------------------------------------
(* a call of _band_buckets on two fingerprints *)

MaxLshBits == 6

\* the widths and band counts of the calls: 4 / 2 has as many bands as a
\* window has bits, like the defaults 64 / 8
LshBits == {4, MaxLshBits}
LshBands == 1..4

InitBuckets ==
    /\ lsh_bits \in LshBits
    /\ lsh_bands \in LshBands
    /\ lsh_simhashes \in [1..2 -> 0..(2^lsh_bits - 1)]
    /\ lsh_buckets = <<>>
    /\ pc = "band_buckets"
    /\ NoPack
    /\ NoDedup
    /\ NoTok
    /\ NoRerank
    /\ NoCluster
    /\ NoCanon
    /\ NoRun

\* _band_buckets(simhashes, bits, bands)
BandBuckets ==
    /\ pc = "band_buckets"
    /\ lsh_buckets' = _band_buckets(lsh_simhashes, lsh_bits, lsh_bands)
    /\ pc' = "bucketed"
    /\ UNCHANGED <<lsh_simhashes, lsh_bits, lsh_bands>>
    /\ UNCHANGED <<clusters, token_budget, per_cluster_min, per_cluster_max,
                   remaining, topics, ci>>
    /\ UNCHANGED frameVars
    /\ UNCHANGED dedupVars
    /\ UNCHANGED tokVars
    /\ UNCHANGED rerankVars
    /\ UNCHANGED clusterVars
    /\ UNCHANGED canonVars
    /\ UNCHANGED runVars

NextBuckets == BandBuckets
SpecBuckets == InitBuckets /\ [][NextBuckets]_vars

----------------------------------------------------------------------------
(* Properties of _band_buckets *)

\* the two fingerprints are members of one bucket
ShareBucket ==
    \E k \in 1..Len(lsh_buckets) :
        /\ \E m \in 1..Len(lsh_buckets[k].cand) : lsh_buckets[k].cand[m] = 1
        /\ \E m \in 1..Len(lsh_buckets[k].cand) : lsh_buckets[k].cand[m] = 2

LshDistance == _hamming(lsh_simhashes[1], lsh_simhashes[2])

\* C23 (as stated): two fingerprints whose Hamming distance is at most
\* bits/bands - 1, the width of a window less one, share at least one bucket
C23_WithinWindowWidthCollide ==
    (pc = "bucketed" /\ LshDistance <= lsh_bits \div lsh_bands - 1) => ShareBucket

\* C23 (amended): two fingerprints whose Hamming distance is at most
\* bands - 1, the number of windows less one, share at least one bucket
C23_FewerThanBandsCollide ==
    (pc = "bucketed" /\ LshDistance <= lsh_bands - 1) => ShareBucket

\* two fingerprints that differ in as many bits as there are windows less one,
\* more than one, and not in every window, were put into buckets
C23_Witness ==
    /\ pc = "bucketed"
    /\ lsh_bands >= 3
    /\ LshDistance = lsh_bands - 1
    /\ ShareBucket
    /\ Len(lsh_buckets) > lsh_bands

----------------------------------------------------------------------------
(* rerank.py: the result of rerank_candidates as a set of indices *)

\* the number of candidates of the rerank_candidates call
RerankN == Len(candidate_texts)

\* the number of positions of o that hold the index i
Occurrences(o, i) == Cardinality({a \in 1..Len(o) : o[a] = i})

\* C28: whenever rerank_candidates returns, under any of the strategies none,
\* ce, mmr and ce+mmr, with n candidate texts and n embedding rows where
\* embeddings are passed, every index 0..n-1 occurs exactly once in the result
\* and nothing else occurs in it.
C28_EveryIndexOnce ==
    pc = "reranked" =>
        /\ \A i \in 0..(RerankN - 1) : Occurrences(order, i) = 1
        /\ \A a \in 1..Len(order) : order[a] \in 0..(RerankN - 1)

\* the combined strategy returned, with embeddings, an order that is neither
\* the cross-encoder order nor the input order, from a cross-encoder order that
\* is not the input order either
C28_Witness ==
    /\ pc = "reranked"
    /\ strategy = "ce+mmr"
    /\ cand_embs # <<>>
    /\ RerankN = MaxCands
    /\ order # ce_order
    /\ \E a \in 1..RerankN : ce_order[a] # a - 1
    /\ \E a \in 1..RerankN : order[a] # a - 1

----------------------------------------------------------------------------
(* rerank.py: the picks of _mmr_select *)

\* the candidates, by index counted from 0
MmrIndices == 0..(MmrN - 1)

\* the candidates placed before position a of the ordering
PickedBefore(a) == {order[b] : b \in 1..(a - 1)}

\* the highest cosine, times SimScale, between candidate i and a candidate of
\* the non-empty set sel
Diversity(i, sel) ==
    CHOOSE d \in {SimMat(MmrRows[i + 1], MmrRows[s + 1]) : s \in sel} :
        \A s \in sel : SimMat(MmrRows[i + 1], MmrRows[s + 1]) <= d

\* lambda * sim(i, query) - (1 - lambda) * max over s in sel of sim(i, s) is
\* greater than the same score of j.  With lambda = l1 / l2, the cosines to
\* the query being Relevance / (NormScale * |q|) and those between candidates
\* Diversity / SimScale, the difference of the two scores has the sign of
\* NormScale * l1 * (Relevance(i) - Relevance(j))
\*     - (l2 - l1) * (Diversity(i) - Diversity(j)) * |q|.
Outscores(i, j, sel) ==
    LET q == QueryOf(MmrRows, query_vec)
        qq == IF Dot(q, q) = 0 THEN 1 ELSE Dot(q, q)
        rel == NormScale * mmr_lambda[1] * (Relevance(i) - Relevance(j))
        div == (mmr_lambda[2] - mmr_lambda[1]) * (Diversity(i, sel) - Diversity(j, sel))
    IN  GreaterThanRoot(rel, div, qq)

\* C25: _mmr_select builds its ordering greedily.  The first entry is the
\* candidate of the highest similarity to the query (to the mean of the
\* candidates when no query vector is given), the lowest index among equals.
\* Every later entry the selection loop places is an unselected candidate that
\* no other unselected candidate outscores, the score being
\* lambda * sim(candidate, query) - (1 - lambda) * max over the selected s of
\* sim(candidate, s), and it outscores every unselected candidate of a lower
\* index.
C25_GreedyPicks ==
    (pc = "selected" /\ MmrN > 0) =>
        /\ \A j \in MmrIndices : Relevance(j) <= Relevance(order[1])
        /\ \A j \in MmrIndices : j < order[1] => Relevance(j) < Relevance(order[1])
        /\ \A a \in 2..Placed :
               LET sel == PickedBefore(a)
                   pick == order[a]
               IN  /\ pick \in MmrIndices \ sel
                   /\ \A j \in MmrIndices \ (sel \cup {pick}) :
                          /\ ~Outscores(j, pick, sel)
                          /\ j < pick => Outscores(pick, j, sel)

\* a selection without a query vector, with lambda strictly between 0 and 1,
\* in which a pick of the loop is less similar to the mean than a candidate it
\* leaves unselected, and a pick of the loop has the same score as an
\* unselected candidate of a higher index
C25_Witness ==
    /\ pc = "selected"
    /\ query_vec = <<>>
    /\ MmrN = MaxMmrCands
    /\ mmr_lambda[1] \in 1..(mmr_lambda[2] - 1)
    /\ \E a \in 2..Placed :
           \E j \in MmrIndices \ (PickedBefore(a) \cup {order[a]}) :
               Relevance(order[a]) < Relevance(j)
    /\ \E a \in 2..Placed :
           \E j \in MmrIndices \ (PickedBefore(a) \cup {order[a]}) :
               /\ order[a] < j
               /\ ~Outscores(order[a], j, PickedBefore(a))

----------------------------------------------------------------------------
(* orchestrator.py: _execute_pipeline from the packing block on *)

\* the steps of the packing block (lines 159-176) that may raise, each with
\* what it raises: the int() conversions of the settings, the packer, the
\* lookup cfg["output"]["dir"], mkdir, json.dumps and write_text; and an
\* interrupt arriving while the packer runs
PackFaults ==
    { <<"int", "ValueError">>,
      <<"pack_context", "AttributeError">>,
      <<"pack_context", "KeyboardInterrupt">>,
      <<"output_dir", "KeyError">>,
      <<"mkdir", "OSError">>,
      <<"json_dumps", "TypeError">>,
      <<"write_text", "OSError">> }

\* the steps of the block in the order the code runs them
StepNo(step) ==
    CASE step = "int" -> 1
      [] step = "pack_context" -> 2
      [] step = "output_dir" -> 3
      [] step = "mkdir" -> 4
      [] step = "json_dumps" -> 5
      [] step = "write_text" -> 6

\* the classes derived from Exception; KeyboardInterrupt derives from
\* BaseException only
ExceptionClasses == {"ValueError", "AttributeError", "KeyError", "OSError", "TypeError"}

\* a handler for OSError only
Caught_OnlyOSError(exc) == exc = "OSError"

\* line 176: except Exception
Caught(exc) == exc \in ExceptionClasses

WarnPackerFailed == "warning: context packer failed"
InfoPackedWritten == "info: packed context written"
InfoSummarized == "info: summarized"
InfoMultiStage == "info: multi-stage summarize"
InfoEmpty == "info: empty briefing -> skip output & publish"
InfoOutputWritten == "info: output written"
ErrorTelegram == "error: telegram publish failed"
ErrorBackup == "error: github backup failed"
InfoOk == "info: OK: briefing generated and published."

\* lines 157-177: the packing block.  The result names the exception that
\* leaves the block ("none" if none does), the message logged (<<>> if none
\* is), whether mkdir ran, and the states packed.json may be left in: a
\* write_text that fails may have truncated the file already.
pack_block(enabled, raises, file, dir) ==
    LET done(step) == raises = <<>> \/ StepNo(raises[1]) > StepNo(step)
        files == IF done("write_text") THEN {"written"}
                 ELSE IF done("json_dumps") THEN {file, "truncated"}
                 ELSE {file}
        made == dir \/ done("mkdir")
    IN  IF ~enabled
        THEN [escapes |-> "none", logged |-> <<>>, dir |-> dir, files |-> {file}]
        ELSE IF raises = <<>>
        THEN [escapes |-> "none", logged |-> <<InfoPackedWritten>>, dir |-> made,
              files |-> files]
        ELSE IF Caught(raises[2])
        THEN [escapes |-> "none", logged |-> <<WarnPackerFailed>>, dir |-> made,
              files |-> files]
        ELSE [escapes |-> raises[2], logged |-> <<>>, dir |-> made, files |-> files]

SummaryResults == {"topics", "no_topics", "raises"}
OutputSteps == {"write_output", "telegram", "archive"}
BundlePool == {<<>>, <<"b">>}

\* the run after run_processing_pipeline returned: the configuration, and what
\* the environment does to each step of this run
InitRun ==
    /\ bundles \in BundlePool
    /\ packer_enabled \in BOOLEAN
    /\ use_multi_stage \in BOOLEAN
    /\ pack_raises \in {<<>>} \cup PackFaults
    /\ summary_result \in SummaryResults
    /\ output_raises \in SUBSET OutputSteps
    /\ packed_json \in {"absent", "old"}
    /\ out_dir_made \in BOOLEAN
    /\ run_log = <<>>
    /\ generated_files = FALSE
    /\ published = {}
    /\ pc = "pack_artifact"
    /\ NoPack
    /\ NoDedup
    /\ NoTok
    /\ NoRerank
    /\ NoCluster
    /\ NoCanon
    /\ NoBuckets

\* what no step of the run changes
RunFrame ==
    /\ UNCHANGED <<bundles, packer_enabled, use_multi_stage, pack_raises,
                   summary_result, output_raises>>
    /\ UNCHANGED <<clusters, token_budget, per_cluster_min, per_cluster_max,
                   remaining, topics, ci>>
    /\ UNCHANGED frameVars
    /\ UNCHANGED dedupVars
    /\ UNCHANGED tokVars
    /\ UNCHANGED rerankVars
    /\ UNCHANGED clusterVars
    /\ UNCHANGED canonVars
    /\ UNCHANGED bucketVars

\* lines 157-177
PackArtifact ==
    /\ pc = "pack_artifact"
    /\ \E r \in {pack_block(packer_enabled, pack_raises, packed_json, out_dir_made)} :
           /\ packed_json' \in r.files
           /\ out_dir_made' = r.dir
           /\ run_log' = run_log \o r.logged
           /\ pc' = IF r.escapes = "none" THEN "summarize" ELSE "aborted"
    /\ UNCHANGED <<generated_files, published>>
    /\ RunFrame

\* md and js are None after the summarization: generate_summary returns
\* (None, None) for no bundles (summarizer.py:30-32) and for a reply without
\* topics (summarizer.py:78-80)
EmptyBriefing ==
    \/ ~use_multi_stage /\ bundles = <<>>
    \/ summary_result = "no_topics"

\* the summarization raises: the model call of either pipeline
SummaryRaises ==
    /\ summary_result = "raises"
    /\ use_multi_stage \/ bundles # <<>>

\* lines 179-209: the summarization and the return on an empty briefing
Summarize ==
    /\ pc = "summarize"
    /\ IF SummaryRaises
       THEN /\ pc' = "aborted"
            /\ UNCHANGED run_log
       ELSE LET said == IF use_multi_stage THEN InfoMultiStage ELSE InfoSummarized
            IN  IF EmptyBriefing
                THEN /\ run_log' = run_log \o <<said, InfoEmpty>>
                     /\ pc' = "skipped"
                ELSE /\ run_log' = Append(run_log, said)
                     /\ pc' = "write_output"
    /\ UNCHANGED <<packed_json, out_dir_made, generated_files, published>>
    /\ RunFrame

\* lines 211-213; write_output makes the directory first (utils.py:125)
WriteOutput ==
    /\ pc = "write_output"
    /\ IF "write_output" \in output_raises
       THEN /\ pc' = "aborted"
            /\ out_dir_made' \in {out_dir_made, TRUE}
            /\ UNCHANGED <<run_log, generated_files>>
       ELSE /\ pc' = "publish_telegram"
            /\ out_dir_made' = TRUE
            /\ generated_files' = TRUE
            /\ run_log' = Append(run_log, InfoOutputWritten)
    /\ UNCHANGED <<packed_json, published>>
    /\ RunFrame

\* lines 215-218
PublishTelegram ==
    /\ pc = "publish_telegram"
    /\ IF "telegram" \in output_raises
       THEN /\ run_log' = Append(run_log, ErrorTelegram)
            /\ UNCHANGED published
       ELSE /\ published' = published \cup {"telegram"}
            /\ UNCHANGED run_log
    /\ pc' = "archive"
    /\ UNCHANGED <<packed_json, out_dir_made, generated_files>>
    /\ RunFrame

\* lines 220-225
BriefingArchive ==
    /\ pc = "archive"
    /\ IF "archive" \in output_raises
       THEN /\ run_log' = run_log \o <<ErrorBackup, InfoOk>>
            /\ UNCHANGED published
       ELSE /\ published' = published \cup {"archive"}
            /\ run_log' = Append(run_log, InfoOk)
    /\ pc' = "ok"
    /\ UNCHANGED <<packed_json, out_dir_made, generated_files>>
    /\ RunFrame

NextRun ==
    \/ PackArtifact
    \/ Summarize
    \/ WriteOutput
    \/ PublishTelegram
    \/ BriefingArchive

SpecRun == InitRun /\ [][NextRun]_vars

----------------------------------------------------------------------------
(* Properties of _execute_pipeline *)

\* the packing block of this run fails: packing is enabled and a step of it
\* raises an exception
PackingFails ==
    /\ packer_enabled
    /\ pack_raises # <<>>
    /\ pack_raises[2] \in ExceptionClasses

\* the messages of lg that do not come from the packing block
RECURSIVE WithoutPackerMessages(_)
WithoutPackerMessages(lg) ==
    IF lg = <<>> THEN <<>>
    ELSE IF Head(lg) \in {WarnPackerFailed, InfoPackedWritten}
    THEN WithoutPackerMessages(Tail(lg))
    ELSE <<Head(lg)>> \o WithoutPackerMessages(Tail(lg))

\* what a run with packing disabled has logged, written and published when
\* it stands at control point p, in this configuration and environment
DisabledRun(p) ==
    LET said == IF use_multi_stage THEN InfoMultiStage ELSE InfoSummarized
        sent == OutputSteps \ output_raises
        telegram == IF "telegram" \in output_raises THEN <<ErrorTelegram>> ELSE <<>>
        backup == IF "archive" \in output_raises THEN <<ErrorBackup>> ELSE <<>>
    IN  CASE p = "summarize" ->
                 [log |-> <<>>, written |-> FALSE, sent |-> {}]
          [] p = "aborted" /\ SummaryRaises ->
                 [log |-> <<>>, written |-> FALSE, sent |-> {}]
          [] p = "skipped" ->
                 [log |-> <<said, InfoEmpty>>, written |-> FALSE, sent |-> {}]
          [] p = "write_output" \/ (p = "aborted" /\ ~SummaryRaises) ->
                 [log |-> <<said>>, written |-> FALSE, sent |-> {}]
          [] p = "publish_telegram" ->
                 [log |-> <<said, InfoOutputWritten>>, written |-> TRUE, sent |-> {}]
          [] p = "archive" ->
                 [log |-> <<said, InfoOutputWritten>> \o telegram, written |-> TRUE,
                  sent |-> sent \cap {"telegram"}]
          [] p = "ok" ->
                 [log |-> <<said, InfoOutputWritten>> \o telegram \o backup \o <<InfoOk>>,
                  written |-> TRUE, sent |-> sent \cap {"telegram", "archive"}]

\* where a run with packing disabled ends, in this configuration and
\* environment
DisabledRunEnd ==
    IF SummaryRaises THEN "aborted"
    ELSE IF EmptyBriefing THEN "skipped"
    ELSE IF "write_output" \in output_raises THEN "aborted"
    ELSE "ok"

\* C27: in _execute_pipeline an exception raised while packing or writing the
\* packed context artifact does not abort the run.  The packing block ends
\* with the failure logged as a warning and the run at the summarization;
\* at every step the run has logged, written and published what a run with
\* packing disabled has, and it ends where that run ends.
C27_PackingFailureNotFatal ==
    [][/\ (PackingFails /\ pc = "pack_artifact") =>
             /\ pc' = "summarize"
             /\ run_log' = <<WarnPackerFailed>>
             /\ UNCHANGED <<bundles, generated_files, published>>
       /\ (PackingFails \/ ~packer_enabled) =>
             /\ WithoutPackerMessages(run_log') = DisabledRun(pc').log
             /\ ~packer_enabled => run_log' = DisabledRun(pc').log
             /\ generated_files' = DisabledRun(pc').written
             /\ published' = DisabledRun(pc').sent
             /\ pc' \in {"aborted", "skipped", "ok"} => pc' = DisabledRunEnd]_vars

\* a run in which write_text failed on a truncated packed.json has written
\* and published the briefing on both channels
C27_Witness ==
    /\ pc = "ok"
    /\ packer_enabled
    /\ pack_raises = <<"write_text", "OSError">>
    /\ packed_json = "truncated"
    /\ run_log[1] = WarnPackerFailed
    /\ generated_files
    /\ published = {"telegram", "archive"}

====
